---- MODULE Spec2Model ----
(***************************************************************************)
(* A model of saspy's COM access method (saspy/sasiocom.py):               *)
(* class SASSessionCOM, one session object and the SAS workspace it        *)
(* drives.  Text is a sequence of tokens, a byte string a sequence of      *)
(* byte values, and every method of the class is one action.               *)
(***************************************************************************)
EXTENDS Naturals, Sequences, FiniteSets

VARIABLES
    phase,      \* "new" | "live" | "failed": position of the client object
    workspace,  \* self.workspace: "none" (attribute unset) | "open" | "closed"
    adodb,      \* self.adodb:     "none" | "closed" | "open"
    keeper,     \* objects registered in self.keeper
    created,    \* [ws, conn]: workspaces created / connections opened so far
    _log,       \* self._log, the running session log
    engine,     \* the workspace's LanguageService and FileService state
    serial,     \* number of operations started on the session
    last,       \* what the last operation did and returned
    prev,       \* summary of the operation before it
    drained,    \* log text handed out by the engine to completed log drains
    chan,       \* stream pump: kind and chunk script of the channel drained
    pumped,     \* stream pump: outcome of the drain
    sascfg,     \* self.sascfg: the attributes of the SASConfigCOM object
    localfs,    \* the client's file system: path -> node
    instances   \* the client instances of one process, among each other and alone

vars == <<phase, workspace, adodb, keeper, created, _log, engine, serial,
          last, prev, drained, chan, pumped, sascfg, localfs, instances>>

sessionVars == <<phase, workspace, adodb, keeper, created, engine, serial,
                 last, prev, drained, sascfg, localfs, instances>>

-----------------------------------------------------------------------------
(* Bounds of the model. *)

\* most operations started on one session
MaxOps == 2
\* most keywords passed to the constructor besides sb
MaxKw == 2
\* longest chunk script of a pumped channel
MaxReads == 3
\* items one read of the session's channels returns at most (its buf)
BufItems == 2

-----------------------------------------------------------------------------
(* Text helpers. *)

RECURSIVE Flatten(_)
Flatten(ss) == IF ss = <<>> THEN <<>> ELSE Head(ss) \o Flatten(Tail(ss))

IsPrefix(s, t) == Len(s) <= Len(t) /\ SubSeq(t, 1, Len(s)) = s

SeqsUpTo(S, n) == UNION {[1..k -> S] : k \in 0..n}

\* Python's None
None == "None"

\* the pieces of s between the occurrences of sep; a Python str is the
\* sequence of its character codes
RECURSIVE split(_, _, _)
split(s, sep, piece) ==
    IF s = <<>> THEN <<piece>>
    ELSE IF Head(s) = sep THEN <<piece>> \o split(Tail(s), sep, <<>>)
    ELSE split(Tail(s), sep, Append(piece, Head(s)))

\* sep.join(pieces)
RECURSIVE join(_, _)
join(pieces, sep) ==
    IF pieces = <<>> THEN <<>>
    ELSE IF Len(pieces) = 1 THEN pieces[1]
    ELSE pieces[1] \o sep \o join(Tail(pieces), sep)

\* decimal text of a natural number, and the number a decimal text denotes
RECURSIVE str(_)
str(n) == IF n < 10 THEN <<48 + n>> ELSE str(n \div 10) \o <<48 + (n % 10)>>

IsDigits(s) == s # <<>> /\ \A i \in 1..Len(s) : s[i] \in 48..57

RECURSIVE int(_)
int(s) == IF s = <<>> THEN 0 ELSE 10 * int(SubSeq(s, 1, Len(s) - 1)) + (s[Len(s)] - 48)

\* text padded with c on the left / right to width w, and with trailing c removed
RECURSIVE zfill(_, _)
zfill(s, w) == IF Len(s) >= w THEN s ELSE zfill(<<48>> \o s, w)

RECURSIVE ljust(_, _, _)
ljust(s, w, c) == IF Len(s) >= w THEN s ELSE ljust(Append(s, c), w, c)

RECURSIVE rstrip(_, _)
rstrip(s, c) ==
    IF s # <<>> /\ s[Len(s)] = c THEN rstrip(SubSeq(s, 1, Len(s) - 1), c) ELSE s

Max(S) == CHOOSE x \in S : \A y \in S : y <= x

-----------------------------------------------------------------------------
(* The three drain loops.  A channel is the script of the chunks its       *)
(* successive reads return; a read past the script returns the empty       *)
(* chunk.  f is the number of the read that raises (0: none does).         *)

Read(ch, i) == IF i <= Len(ch) THEN ch[i] ELSE <<>>

\* the state of a loop at its `while flushed:` test, after i reads
RECURSIVE getlstLoop(_, _, _, _, _)
getlstLoop(ch, f, i, flushed, result) ==
    IF flushed = <<>> THEN [result |-> result, reads |-> i, raised |-> FALSE]
    ELSE IF f = i + 1 THEN [result |-> <<>>, reads |-> i + 1, raised |-> TRUE]
    ELSE LET nx == Read(ch, i + 1)
         IN  getlstLoop(ch, f, i + 1, nx, result \o nx)

\* _getlst with `if flushed:` for `while flushed:`
getlstOnce(ch, f) ==
    IF f = 1 THEN [result |-> <<>>, reads |-> 1, raised |-> TRUE]
    ELSE LET flushed == Read(ch, 1)
         IN  IF flushed = <<>> THEN [result |-> <<>>, reads |-> 1, raised |-> FALSE]
             ELSE IF f = 2 THEN [result |-> <<>>, reads |-> 2, raised |-> TRUE]
             ELSE [result |-> flushed \o Read(ch, 2), reads |-> 2, raised |-> FALSE]

_getlst(ch, f) ==
    IF f = 1 THEN [result |-> <<>>, reads |-> 1, raised |-> TRUE]
    ELSE LET flushed == Read(ch, 1)
         IN  getlstLoop(ch, f, 1, flushed, flushed)

RECURSIVE getlogLoop(_, _, _, _, _)
getlogLoop(ch, f, i, flushed, result) ==
    IF flushed = <<>> THEN [result |-> result, reads |-> i, raised |-> FALSE]
    ELSE IF f = i + 1 THEN [result |-> <<>>, reads |-> i + 1, raised |-> TRUE]
    ELSE LET nx == Read(ch, i + 1)
         IN  getlogLoop(ch, f, i + 1, nx, result \o nx)

\* _getlog with `self._log = result` for `self._log += result`
getlogOverwrite(ch, f, log) ==
    LET r == IF f = 1 THEN [result |-> <<>>, reads |-> 1, raised |-> TRUE]
             ELSE LET flushed == Read(ch, 1)
                  IN  getlogLoop(ch, f, 1, flushed, flushed)
    IN  [result |-> r.result, reads |-> r.reads, raised |-> r.raised,
         log |-> IF r.raised THEN log ELSE r.result]

\* result, and the new value of self._log (unchanged when a read raised)
_getlog(ch, f, log) ==
    LET r == IF f = 1 THEN [result |-> <<>>, reads |-> 1, raised |-> TRUE]
             ELSE LET flushed == Read(ch, 1)
                  IN  getlogLoop(ch, f, 1, flushed, flushed)
    IN  [result |-> r.result, reads |-> r.reads, raised |-> r.raised,
         log |-> IF r.raised THEN log ELSE log \o r.result]

\* bytes(flushed): the byte string of a chunk of byte values
bytes(flushed) == [i \in 1..Len(flushed) |-> flushed[i] % 256]

\* bytes.decode(encoding, errors='replace') of single-byte text: a byte that
\* is no valid character becomes U+FFFD
ReplacementChar == 65533
decode(bs) == [i \in 1..Len(bs) |-> IF bs[i] < 128 THEN bs[i] ELSE ReplacementChar]

RECURSIVE getfileLoop(_, _, _, _, _)
getfileLoop(ch, f, i, flushed, result) ==
    IF flushed = <<>> THEN [result |-> result, reads |-> i, raised |-> FALSE]
    ELSE IF f = i + 1 THEN [result |-> <<>>, reads |-> i + 1, raised |-> TRUE]
    ELSE LET nx == Read(ch, i + 1)
         IN  getfileLoop(ch, f, i + 1, nx, result \o bytes(nx))

\* the reads of _getfile on an opened stream, and the decoding of the payload
getfileRead(ch, f, dec) ==
    LET r == IF f = 1 THEN [result |-> <<>>, reads |-> 1, raised |-> TRUE]
             ELSE LET flushed == Read(ch, 1)
                  IN  getfileLoop(ch, f, 1, flushed, bytes(flushed))
    IN  [result |-> IF dec /\ ~r.raised THEN decode(r.result) ELSE r.result,
         reads |-> r.reads, raised |-> r.raised]

-----------------------------------------------------------------------------
(* The workspace: LanguageService, FileService and the tables of the       *)
(* engine, as SASSessionCOM uses them.                                     *)

\* one token of program text
Tok(t) == [t |-> t]
Code(kind) == <<[t |-> "code", kind |-> kind]>>

\* one line of log or listing output: the operation whose text produced it
Line(n, by, what) == [op |-> n, by |-> by, what |-> what]

\* the capture file and the CSV export file, on the engine's side.  A path
\* is the sequence of its components; workpath is self._sb.workpath.
HTML_RESULT_FILE == "saspy_results.html"
SD2DF_CSV == "saspy_sd2df.csv"
workpath == <<"work">>
_gethtmlfn == workpath \o <<HTML_RESULT_FILE>>
sas_csv == workpath \o <<SD2DF_CSV>>

\* names of local files, and the paths callers name on the engine's host:
\* a directory, files in and out of it, and a path that does not exist
LocalNames == {"l.bin", "l2.bin"}
RemoteDir == <<"rdir">>
UserRemote ==
    {RemoteDir, <<"r.bin">>, <<"r.csv">>, <<"gone.bin">>}
    \cup {RemoteDir \o <<b>> : b \in LocalNames}
RemoteFiles == {_gethtmlfn, sas_csv} \cup UserRemote

\* os.path.basename(path), path.rpartition(hostsep) and os.path.join(a, b)
\* on sequences of components
hostsep == "/"
basename(path) == path[Len(path)]
rpartition(path) == <<SubSeq(path, 1, Len(path) - 1), hostsep, path[Len(path)]>>
os_path_join(a, b) == a \o <<b>>

\* the client's paths: the local files, a directory, and what a download
\* into that directory can be named
LocalDir == <<"ldir">>
LocalPaths ==
    {<<b>> : b \in LocalNames} \cup {LocalDir}
    \cup {os_path_join(LocalDir, basename(p)) : p \in UserRemote}
Absent == [exists |-> FALSE, data |-> <<>>]
File(data) == [exists |-> TRUE, data |-> data]

\* self._sb._tablepath(table, libref): the library and the member a table
\* name denotes; a one-level name is a member of WORK
_tablepath(table, libref) ==
    [lib |-> IF libref = None THEN "work" ELSE libref, name |-> table]

\* a table: its columns (name, type, length, format name) and its rows, a
\* row being the sequence of its cells and a cell the sequence of the
\* numbers (integral part, millionths) or characters it holds, empty when
\* the value is missing
\* a format: its name, width and decimals; FORMAT_NAME of a column is the name
Format(name, w, d) == [name |-> name, w |-> w, d |-> d]
NoFormat == Format("", 0, 0)

Column(name, type, len, fmt) == [name |-> name, type |-> type, len |-> len, fmt |-> fmt]
NoTable == [cols |-> <<>>, rows |-> <<>>]
T1 == [cols |-> <<Column(<<120>>, "num", 8, NoFormat)>>, rows |-> << << <<1>> >>, << <<2>> >> >>]

\* the text proc export writes for a table: a line of names, a line per row
csvCell(col, cell) ==
    IF cell = <<>> THEN <<>>
    ELSE IF col.type = "char" THEN rstrip(cell, 32)
    ELSE IF Len(cell) = 1 THEN str(cell[1])
    ELSE str(cell[1]) \o <<46>> \o zfill(str(cell[2]), 6)

csvText(tbl) ==
    LET names == [j \in 1..Len(tbl.cols) |-> tbl.cols[j].name]
        line(i) == join([j \in 1..Len(tbl.cols) |-> csvCell(tbl.cols[j], tbl.rows[i][j])],
                        <<44>>)
    IN  join(<<join(names, <<44>>)>> \o [i \in 1..Len(tbl.rows) |-> line(i)], <<10>>)
        \o <<10>>

\* the table proc import makes of such a text: a column is numeric when all
\* its values are numerals, character otherwise
IsFloat(s) ==
    LET ps == split(s, 46, <<>>) IN Len(ps) = 2 /\ IsDigits(ps[1]) /\ IsDigits(ps[2])

csvTable(data) ==
    LET pieces == split(data, 10, <<>>)
        lines == SubSeq(pieces, 1, Len(pieces) - 1)
    IN  IF lines = <<>> THEN NoTable
        ELSE
        LET names == split(lines[1], 44, <<>>)
            recs == [i \in 1..(Len(lines) - 1) |-> split(lines[i + 1], 44, <<>>)]
            vals(j) == {recs[i][j] : i \in 1..Len(recs)} \ {<<>>}
            isnum(j) == \A v \in vals(j) : IsDigits(v) \/ IsFloat(v)
            width(j) == Max({Len(v) : v \in vals(j)} \cup {1})
            cell(j, v) ==
                IF v = <<>> THEN <<>>
                ELSE IF ~isnum(j) THEN ljust(v, width(j), 32)
                ELSE IF IsDigits(v) THEN <<int(v)>>
                ELSE <<int(split(v, 46, <<>>)[1]), int(split(v, 46, <<>>)[2])>>
        IN  [cols |-> [j \in 1..Len(names) |->
                         Column(names[j], IF isnum(j) THEN "num" ELSE "char",
                                IF isnum(j) THEN 8 ELSE width(j), NoFormat)],
             rows |-> [i \in 1..Len(recs) |->
                         [j \in 1..Len(names) |-> cell(j, recs[i][j])]]]

\* byte values standing for the markup fragments the listing fix-ups look for
BODY_C == 1
BODY_L == 2
FONT_XSMALL == 3
FONT_NORMAL == 4
FORM_FEED == 12
LINE_FEED == 10

\* the capture file the engine writes for the unit of operation n
HtmlOf(n) == <<BODY_C, FONT_XSMALL, FORM_FEED, 48 + n>>

\* the intermediate table _saspy_sd2df: the table and dataset options it was
\* last made from, and by which operation
TARGET == "_saspy_sd2df"
NoTarget == [src |-> [lib |-> "", name |-> ""], dopt |-> "", op |-> 0]

\* the tables callers name, in WORK and in a second library
TableNames == {"t1", "t2", "nt"}
Librefs == {None, "sashelp"}
TablePaths == {_tablepath(t, l) : t \in TableNames \cup {TARGET}, l \in Librefs}

\* a new workspace: WORK.t1 exists, and on the host a file and a directory
\* that holds a file
InitEngine ==
    [parserErr |-> FALSE, log |-> <<>>, lst |-> <<>>,
     files |-> [p \in RemoteFiles |-> IF p = <<"r.bin">> THEN File(<<7, 200, 9>>)
                                      ELSE IF p = RemoteDir \o <<"l.bin">> THEN File(<<5>>)
                                      ELSE Absent],
     dirs |-> {RemoteDir},
     tables |-> {_tablepath("t1", None)},
     content |-> [q \in TablePaths |-> IF q = _tablepath("t1", None) THEN T1 ELSE NoTable],
     target |-> NoTarget,
     filerefs |-> {}, streams |-> 0, cursors |-> 0]

\* program text is incomplete when one of its tokens is: user code without
\* its closing semicolon or quote, a dataset option with an open quote
Incomplete(unit) ==
    \E i \in 1..Len(unit) :
        \/ unit[i].t = "code" /\ unit[i].kind = "bad"
        \/ unit[i].t \in {"data", "export"} /\ unit[i].dopt = "bad"

Has(unit, t) == \E i \in 1..Len(unit) : unit[i].t = t

\* the data steps of a unit: each (re)creates its target from its source
\* table when the source exists
DataSteps(unit) == {i \in 1..Len(unit) : unit[i].t = "data"}

\* the proc import / proc export steps of a unit
Procs(unit, proc) ==
    {i \in 1..Len(unit) : unit[i].t = "code" /\ "proc" \in DOMAIN unit[i]
                           /\ unit[i].proc = proc}

\* the dataset option (drop=d) leaves out the column named d; a step that
\* names a column its table does not have fails
DROP == "drop"
DropName == <<100>>
RECURSIVE keptColumns(_, _)
keptColumns(cols, j) ==
    IF j > Len(cols) THEN <<>>
    ELSE (IF cols[j].name = DropName THEN <<>> ELSE <<j>>) \o keptColumns(cols, j + 1)

Applies(tbl, dopt) ==
    dopt = DROP => \E j \in 1..Len(tbl.cols) : tbl.cols[j].name = DropName

Applied(tbl, dopt) ==
    IF dopt # DROP THEN tbl
    ELSE LET keep == keptColumns(tbl.cols, 1)
         IN  [cols |-> [k \in 1..Len(keep) |-> tbl.cols[keep[k]]],
              rows |-> [i \in 1..Len(tbl.rows) |->
                          [k \in 1..Len(keep) |-> tbl.rows[i][keep[k]]]]]

\* a data step of a complete unit: it (re)creates its target from its source
\* table when the source exists, and the export after it writes the CSV file
\* of the target there is
DataStep(r, unit, n) ==
    LET src  == unit[CHOOSE i \in DataSteps(unit) : TRUE]
        made == src.src \in r.tables /\ Applies(r.content[src.src], src.dopt)
        r1   == IF made
                THEN [r EXCEPT !.content[_tablepath(TARGET, None)] =
                                   Applied(r.content[src.src], src.dopt),
                               !.target = [src |-> src.src, dopt |-> src.dopt, op |-> n]]
                ELSE r
        out  == unit[CHOOSE i \in 1..Len(unit) : unit[i].t = "export"]
        tbl  == r1.content[_tablepath(TARGET, None)]
    IN  IF Has(unit, "export") /\ (made \/ r.target # NoTarget) /\ Applies(tbl, out.dopt)
        THEN [r1 EXCEPT !.files[sas_csv] = File(csvText(Applied(tbl, out.dopt)))]
        ELSE r1

\* proc export of a complete unit writes the text of an existing table
ProcExport(r, step) ==
    IF step.table \in r.tables
    THEN [r EXCEPT !.files[step.file] = File(csvText(r.content[step.table]))]
    ELSE r

\* proc import of a complete unit makes a table of the text of an existing
\* file that has a line of names
Imported(r, step, tbl) ==
    IF tbl = NoTable THEN r
    ELSE [r EXCEPT !.tables = @ \cup {step.table}, !.content[step.table] = tbl]

ProcImport(r, step) ==
    IF r.files[step.file].exists THEN Imported(r, step, csvTable(r.files[step.file].data))
    ELSE r

\* LanguageService.Submit(text) for the unit of operation n.  A parser in
\* the error state rejects the unit; an incomplete unit leaves it there.
\* A complete unit runs its steps.
LSSubmit(e, unit, n, by) ==
    IF e.parserErr
    THEN [e EXCEPT !.log = @ \o <<Line(n, by, "rejected")>>]
    ELSE LET bad == Incomplete(unit)
             r == [e EXCEPT
                     !.parserErr = bad,
                     !.log = @ \o (IF bad THEN <<Line(n, by, "note"), Line(n, by, "error")>>
                                          ELSE <<Line(n, by, "note")>>),
                     !.lst = IF Has(unit, "ods_open") \/ Has(unit, "data") THEN @
                             ELSE @ \o <<Line(n, by, "out")>>,
                     !.files[_gethtmlfn] = IF Has(unit, "ods_open") THEN File(HtmlOf(n))
                                           ELSE @]
         IN  IF bad THEN r
             ELSE IF DataSteps(unit) # {} THEN DataStep(r, unit, n)
             ELSE IF Procs(unit, "export") # {}
             THEN ProcExport(r, unit[CHOOSE i \in Procs(unit, "export") : TRUE])
             ELSE IF Procs(unit, "import") # {}
             THEN ProcImport(r, unit[CHOOSE i \in Procs(unit, "import") : TRUE])
             ELSE r

\* LanguageService.Reset()
LSReset(e) == [e EXCEPT !.parserErr = FALSE]

\* the successive chunks FlushLog(buf) / FlushList(buf) / stream.Read(buf)
\* return for pending text s, each at most n items long
RECURSIVE Chunks(_, _)
Chunks(s, n) ==
    IF s = <<>> THEN <<>>
    ELSE IF Len(s) <= n THEN <<s>>
    ELSE <<SubSeq(s, 1, n)>> \o Chunks(SubSeq(s, n + 1, Len(s)), n)

\* what is still pending of s after r reads of a drain the last of which
\* raised (and took nothing) or not
Pending(s, n, reads, raised) ==
    LET took == IF raised THEN reads - 1 ELSE reads
        ch   == Chunks(s, n)
    IN  IF took >= Len(ch) THEN <<>> ELSE Flatten(SubSeq(ch, took + 1, Len(ch)))

\* the COM call that raises in an operation: none, or the n-th call of a kind
NoFail == [call |-> "none", n |-> 0]

FailAt(fail, call) == IF fail.call = call THEN fail.n ELSE 0

-----------------------------------------------------------------------------
(* SASSessionCOM: the methods of the session, each computed as its code    *)
(* runs: the COM calls in order, stopping at the one that raises.          *)

\* str.lower() on the result formats callers pass
lower(results) == IF results = "HTML" THEN "html" ELSE results

\* _getfile making one read of the stream
getfileOneRead(e, fname, dec, fail) ==
    IF fail.call = "AssignFileref" THEN [raised |-> TRUE, result |-> <<>>, e |-> e]
    ELSE
    LET e1 == [e EXCEPT !.filerefs = @ \cup {"outfile"}]
    IN  IF fail.call = "OpenBinaryStream" \/ ~e.files[fname].exists
        THEN [raised |-> TRUE, result |-> <<>>, e |-> e1]
        ELSE
        LET e2 == [e1 EXCEPT !.streams = @ + 1]
            r  == getfileRead(SubSeq(Chunks(e.files[fname].data, BufItems), 1, 1),
                              FailAt(fail, "Read"), dec)
        IN  IF r.raised \/ fail.call = "Close"
            THEN [raised |-> TRUE, result |-> <<>>, e |-> e2]
            ELSE [raised |-> FALSE, result |-> r.result,
                  e |-> [e2 EXCEPT !.streams = @ - 1, !.filerefs = @ \ {"outfile"}]]

\* _getfile(fname, decode): [raised, result, e]
_getfile(e, fname, dec, fail) ==
    IF fail.call = "AssignFileref" THEN [raised |-> TRUE, result |-> <<>>, e |-> e]
    ELSE
    LET e1 == [e EXCEPT !.filerefs = @ \cup {"outfile"}]
    IN  IF fail.call = "OpenBinaryStream" \/ ~e.files[fname].exists
        THEN [raised |-> TRUE, result |-> <<>>, e |-> e1]
        ELSE
        LET e2 == [e1 EXCEPT !.streams = @ + 1]
            r  == getfileRead(Chunks(e.files[fname].data, BufItems), FailAt(fail, "Read"), dec)
        IN  IF r.raised \/ fail.call = "Close"
            THEN [raised |-> TRUE, result |-> <<>>, e |-> e2]
            ELSE
            LET e3 == [e2 EXCEPT !.streams = @ - 1]
            IN  IF fail.call = "DeassignFileref"
                THEN [raised |-> TRUE, result |-> <<>>, e |-> e3]
                ELSE [raised |-> FALSE, result |-> r.result,
                      e |-> [e3 EXCEPT !.filerefs = @ \ {"outfile"}]]

\* self._sb.file_info(remote, quiet=True): None for a path that does not
\* exist, the empty dict for a directory, the attributes of a file
EmptyDict == "{}"
file_info(e, remote) ==
    IF remote \in e.dirs THEN EmptyDict
    ELSE IF e.files[remote].exists THEN "info"
    ELSE None

NoTransfer(e, lfs) ==
    [e |-> e, lfs |-> lfs, exc |-> "", Success |-> None, LOG |-> "", target |-> <<>>,
     calls |-> 0]

\* upload writing to `remote` whatever it is
uploadToRemote(e, lfs, local, remote, overwrite, fail, up) ==
    LET o0 == NoTransfer(e, lfs)
        valid == file_info(e, remote)
        remote_file == remote
        o1 == [o0 EXCEPT !.target = remote_file, !.exc = "com_error", !.calls = 1]
    IN  IF valid \notin {EmptyDict, None} /\ overwrite = "False"
        THEN [o0 EXCEPT !.Success = "False",
                        !.LOG = "File exists and overwrite was set to False. Upload was stopped."]
        ELSE IF ~lfs.files[local].exists THEN [o0 EXCEPT !.exc = "OSError"]
        ELSE IF ~up \/ fail.call = "AssignFileref" THEN o1
        ELSE
        LET e1 == [e EXCEPT !.filerefs = @ \cup {"infile"}]
        IN  IF fail.call = "OpenBinaryStream" \/ remote_file \in e.dirs
            THEN [o1 EXCEPT !.e = e1]
            ELSE
            LET e2 == [e1 EXCEPT !.streams = @ + 1, !.files[remote_file] = File(<<>>)]
                e3 == [e2 EXCEPT !.files[remote_file] = File(lfs.files[local].data)]
                e4 == [e3 EXCEPT !.streams = @ - 1]
            IN  IF fail.call = "Write" THEN [o1 EXCEPT !.e = e2]
                ELSE IF fail.call = "Close" THEN [o1 EXCEPT !.e = e3]
                ELSE IF fail.call = "DeassignFileref" THEN [o1 EXCEPT !.e = e4]
                ELSE [o1 EXCEPT !.e = [e4 EXCEPT !.filerefs = @ \ {"infile"}],
                                !.exc = "", !.Success = "True",
                                !.LOG = "File successfully written using FileService."]

\* upload(local, remote, overwrite): [e, lfs, exc, Success, target, calls],
\* calls telling whether a FileService call was made; up tells whether the
\* workspace the FileService is read from is open
uploadRun(e, lfs, local, remote, overwrite, fail, up) ==
    LET o0 == NoTransfer(e, lfs)
        valid == file_info(e, remote)
        remote_file == IF valid = EmptyDict THEN remote \o <<basename(local)>> ELSE remote
        o1 == [o0 EXCEPT !.target = remote_file, !.exc = "com_error", !.calls = 1]
    IN  IF valid \notin {EmptyDict, None} /\ overwrite = "False"
        THEN [o0 EXCEPT !.Success = "False",
                        !.LOG = "File exists and overwrite was set to False. Upload was stopped."]
        ELSE IF ~lfs.files[local].exists THEN [o0 EXCEPT !.exc = "OSError"]
        ELSE IF ~up \/ fail.call = "AssignFileref" THEN o1
        ELSE
        LET e1 == [e EXCEPT !.filerefs = @ \cup {"infile"}]
        IN  IF fail.call = "OpenBinaryStream" \/ remote_file \in e.dirs
            THEN [o1 EXCEPT !.e = e1]
            ELSE
            LET e2 == [e1 EXCEPT !.streams = @ + 1, !.files[remote_file] = File(<<>>)]
                e3 == [e2 EXCEPT !.files[remote_file] = File(lfs.files[local].data)]
                e4 == [e3 EXCEPT !.streams = @ - 1]
            IN  IF fail.call = "Write" THEN [o1 EXCEPT !.e = e2]
                ELSE IF fail.call = "Close" THEN [o1 EXCEPT !.e = e3]
                ELSE IF fail.call = "DeassignFileref" THEN [o1 EXCEPT !.e = e4]
                ELSE [o1 EXCEPT !.e = [e4 EXCEPT !.filerefs = @ \ {"infile"}],
                                !.exc = "", !.Success = "True",
                                !.LOG = "File successfully written using FileService."]

\* download without the test for a directory
downloadUnchecked(e, lfs, local, remote, overwrite, fail, up) ==
    LET o0 == NoTransfer(e, lfs)
        valid == file_info(e, remote)
        local_file == IF local \in lfs.dirs
                      THEN os_path_join(local, rpartition(remote)[3]) ELSE local
        lfs1 == [lfs EXCEPT !.files[local_file] = File(<<>>)]
        gf == IF up THEN _getfile(e, remote, FALSE, fail)
              ELSE [raised |-> TRUE, result |-> <<>>, e |-> e]
    IN  IF valid = None
        THEN [o0 EXCEPT !.Success = "False", !.LOG = "File does not exist."]
        ELSE IF local_file \in lfs.dirs
        THEN [o0 EXCEPT !.exc = "OSError", !.target = local_file]
        ELSE IF gf.raised
        THEN [o0 EXCEPT !.e = gf.e, !.lfs = lfs1, !.exc = "com_error",
                        !.target = local_file, !.calls = 1]
        ELSE [o0 EXCEPT !.e = gf.e, !.lfs = [lfs1 EXCEPT !.files[local_file] = File(gf.result)],
                        !.Success = "True", !.target = local_file, !.calls = 1,
                        !.LOG = "File successfully read using FileService."]

\* download(local, remote, overwrite): [e, lfs, exc, Success, target, calls];
\* the local file is opened for writing before _getfile reaches the workspace
downloadRun(e, lfs, local, remote, overwrite, fail, up) ==
    LET o0 == NoTransfer(e, lfs)
        valid == file_info(e, remote)
        local_file == IF local \in lfs.dirs
                      THEN os_path_join(local, rpartition(remote)[3]) ELSE local
        lfs1 == [lfs EXCEPT !.files[local_file] = File(<<>>)]
        gf == IF up THEN _getfile(e, remote, FALSE, fail)
              ELSE [raised |-> TRUE, result |-> <<>>, e |-> e]
    IN  IF valid = None
        THEN [o0 EXCEPT !.Success = "False", !.LOG = "File does not exist."]
        ELSE IF valid = EmptyDict
        THEN [o0 EXCEPT !.Success = "False", !.LOG = "File is a directory."]
        ELSE IF local_file \in lfs.dirs
        THEN [o0 EXCEPT !.exc = "OSError", !.target = local_file]
        ELSE IF gf.raised
        THEN [o0 EXCEPT !.e = gf.e, !.lfs = lfs1, !.exc = "com_error",
                        !.target = local_file, !.calls = 1]
        ELSE [o0 EXCEPT !.e = gf.e, !.lfs = [lfs1 EXCEPT !.files[local_file] = File(gf.result)],
                        !.Success = "True", !.target = local_file, !.calls = 1,
                        !.LOG = "File successfully read using FileService."]

\* _reset()
_reset(e) == LSReset(e)

\* _prompt(key, hide) against the answers the prompt function will give; i
\* answers have been given so far.
RECURSIVE promptLoop(_, _, _)
promptLoop(key, answers, i) ==
    LET val == answers[i + 1]
    IN  IF val = None
        THEN [raised |-> TRUE, exc |-> "KeyboardInterrupt", asked |-> i + 1, ret |-> <<>>]
        ELSE IF val # ""
        THEN [raised |-> FALSE, exc |-> "", asked |-> i + 1, ret |-> <<key, val>>]
        ELSE promptLoop(key, answers, i + 1)

_prompt(key, answers) == promptLoop(key, answers, 0)

\* the names bound in the body of submit when its prompt loop runs
SubmitNames == {"self", "code", "results", "prompt", "RESET", "macro_declare", "key", "value"}

\* the prompt loop of submit: macro_declare, or the exception that ends it.
\* Each entry of prompt is [key, answers]; the loop calls
\* self._prompt(key, val), and reading a name that is not bound raises.
RECURSIVE submitPrompts(_, _, _)
submitPrompts(prompt, macro, asked) ==
    IF prompt = <<>> THEN [raised |-> FALSE, exc |-> "", macro |-> macro, asked |-> asked]
    ELSE IF "val" \notin SubmitNames
    THEN [raised |-> TRUE, exc |-> "NameError", macro |-> <<>>, asked |-> asked]
    ELSE LET r == _prompt(Head(prompt).key, Head(prompt).answers)
         IN  IF r.raised
             THEN [raised |-> TRUE, exc |-> r.exc, macro |-> <<>>, asked |-> asked + r.asked]
             ELSE submitPrompts(Tail(prompt),
                      macro \o <<[t |-> "let", key |-> r.ret[1], val |-> r.ret[2]]>>,
                      asked + r.asked)

\* the text _asubmit hands to LanguageService.Submit for `code`
RESET == <<Tok("reset")>>
ods_open(results) == IF lower(results) = "html" THEN <<Tok("ods_open")>> ELSE <<>>
ods_close(results) == IF lower(results) = "html" THEN <<Tok("ods_close")>> ELSE <<>>
\* full_code without the postamble
full_codeOpen(code, results) == ods_open(results) \o code

full_code(code, results) == ods_open(results) \o code \o ods_close(results)

\* the three replacements submit makes in the HTML listing
FixUp(c) == IF c = FORM_FEED THEN LINE_FEED
            ELSE IF c = BODY_C THEN BODY_L
            ELSE IF c = FONT_XSMALL THEN FONT_NORMAL
            ELSE c
replace(listing) == [i \in 1..Len(listing) |-> FixUp(listing[i])]

\* what a call of submit leaves behind
Outcome(e, log) ==
    [e |-> e, log |-> log, exc |-> "", handed |-> FALSE, errAtHandoff |-> FALSE,
     resets |-> 0, unit |-> <<>>, LOG |-> <<>>, LST |-> <<>>, asked |-> 0, took |-> <<>>,
     macro |-> <<>>, issued |-> FALSE, calls |-> <<>>]

\* submit taking the listing from the listing channel in every mode
drainResultsFromChannel(e1, o1, log, results, fail) ==
    LET lg == _getlog(Chunks(e1.log, BufItems), FailAt(fail, "FlushLog"), log)
        e2 == [e1 EXCEPT !.log = Pending(e1.log, BufItems, lg.reads, lg.raised)]
        oL == [o1 EXCEPT !.calls = Append(@, "_getlog")]
    IN  IF lg.raised THEN [oL EXCEPT !.e = e2, !.exc = "com_error"]
        ELSE
        LET o2 == [oL EXCEPT !.e = e2, !.log = lg.log, !.LOG = lg.result,
                             !.took = SubSeq(e1.log, 1, Len(e1.log) - Len(e2.log)),
                             !.calls = Append(@, "_getlst")]
            gl == _getlst(Chunks(e2.lst, BufItems), FailAt(fail, "FlushList"))
            e3 == [e2 EXCEPT !.lst = Pending(e2.lst, BufItems, gl.reads, gl.raised)]
        IN  IF gl.raised THEN [o2 EXCEPT !.e = e3, !.exc = "com_error"]
            ELSE [o2 EXCEPT !.e = _reset(e3), !.resets = 1, !.LST = gl.result,
                            !.calls = Append(@, "_reset")]

\* submit after _asubmit handed the unit over and left the engine as e1:
\* the log is drained, then the listing or the capture file, then _reset
drainResults(e1, o1, log, results, fail) ==
    LET lg == _getlog(Chunks(e1.log, BufItems), FailAt(fail, "FlushLog"), log)
        e2 == [e1 EXCEPT !.log = Pending(e1.log, BufItems, lg.reads, lg.raised)]
        oL == [o1 EXCEPT !.calls = Append(@, "_getlog")]
    IN  IF lg.raised THEN [oL EXCEPT !.e = e2, !.exc = "com_error"]
        ELSE
        LET o2 == [oL EXCEPT !.e = e2, !.log = lg.log, !.LOG = lg.result,
                             !.took = SubSeq(e1.log, 1, Len(e1.log) - Len(e2.log)),
                             !.calls = Append(@, IF lower(results) = "html"
                                                 THEN "_getfile" ELSE "_getlst")]
        IN  IF lower(results) = "html"
            THEN LET gf == _getfile(e2, _gethtmlfn, TRUE, fail)
                 IN  IF gf.raised THEN [o2 EXCEPT !.e = gf.e, !.exc = "com_error"]
                     ELSE [o2 EXCEPT !.e = _reset(gf.e), !.resets = 1,
                                     !.LST = replace(gf.result),
                                     !.calls = Append(@, "_reset")]
            ELSE LET gl == _getlst(Chunks(e2.lst, BufItems), FailAt(fail, "FlushList"))
                     e3 == [e2 EXCEPT !.lst = Pending(e2.lst, BufItems, gl.reads, gl.raised)]
                 IN  IF gl.raised THEN [o2 EXCEPT !.e = e3, !.exc = "com_error"]
                     ELSE [o2 EXCEPT !.e = _reset(e3), !.resets = 1,
                                     !.LST = gl.result, !.calls = Append(@, "_reset")]

\* submit(code, results, prompt) as operation n on engine e with session log
\* `log`; up: the workspace is open
submitRun(e, log, n, code, results, prompt, fail, up) ==
    LET pr == submitPrompts(prompt, <<>>, 0)
        o0 == [Outcome(e, log) EXCEPT !.asked = pr.asked, !.macro = pr.macro]
    IN  IF pr.raised THEN [o0 EXCEPT !.exc = pr.exc]
        ELSE IF ~up \/ fail.call = "Submit"
        THEN [o0 EXCEPT !.exc = "com_error", !.issued = TRUE, !.calls = <<"Submit">>]
        ELSE
        LET unit == full_code(RESET \o pr.macro \o code \o RESET, results)
        IN  CHOOSE o \in
                {drainResults(e1, [o0 EXCEPT !.e = e1, !.handed = TRUE,
                                             !.errAtHandoff = e.parserErr,
                                             !.unit = unit, !.issued = TRUE,
                                             !.calls = <<"Submit">>],
                              log, results, fail) :
                    e1 \in {LSSubmit(e, unit, n, "submit")}} : TRUE

\* Python values: a number [num, <<integral part>> or <<integral part,
\* millionths>>], a str [str, character codes], a Timestamp [dt, <<seconds,
\* microseconds, nanoseconds>> since the epoch], and the null values
PyNone == [k |-> "none", v |-> <<>>]
NaT == [k |-> "nat", v |-> <<>>]
Num(n) == [k |-> "num", v |-> <<n>>]
Str(cs) == [k |-> "str", v |-> cs]
Timestamp(sec, usec, ns) == [k |-> "dt", v |-> <<sec, usec, ns>>]
Bool(b) == [k |-> "bool", v |-> <<IF b THEN 1 ELSE 0>>]

\* pd.isnull(x)
isnull(x) == x.k \in {"none", "nat"}

\* self._sb.sas_date_fmts / sas_datetime_fmts: the format names of dates and
\* of datetimes
sas_date_fmts == {"DATE", "E8601DA"}
sas_datetime_fmts == {"DATETIME", "E8601DT"}

\* the value a cursor field hands to Python for a cell: None for a missing
\* value, a str without its padding, a number
Value(col, cell) ==
    IF cell = <<>> THEN PyNone
    ELSE IF col.type = "char" THEN Str(rstrip(cell, 32))
    ELSE [k |-> "num", v |-> cell]

\* col_info['CONVERT'] chosen by _schema from the column's format name
CONVERT(col) ==
    IF col.fmt.name \in sas_date_fmts THEN "days"
    ELSE IF col.fmt.name \in sas_datetime_fmts THEN "seconds"
    ELSE "identity"

\* SAS_EPOCH + datetime.timedelta(days=x): x days, given as whole days and
\* millionths of a day, in seconds and microseconds since the epoch
SecondsPerDay == 86400
timedeltaDays(v) ==
    LET frac == IF Len(v) > 1 THEN v[2] ELSE 0
        part == frac * (SecondsPerDay \div 100)
    IN  [k |-> "dt",
         v |-> <<v[1] * SecondsPerDay + part \div 10000, (part % 10000) * 100, 0>>]

\* meta[name]['CONVERT'](x): SAS_EPOCH + timedelta(days=x) or (seconds=x)
\* raise TypeError on None
convert(conv, x) ==
    IF conv = "identity" THEN [raised |-> FALSE, value |-> x]
    ELSE IF x.k # "num" THEN [raised |-> TRUE, value |-> x]
    ELSE IF conv = "days" THEN [raised |-> FALSE, value |-> timedeltaDays(x.v)]
    ELSE [raised |-> FALSE,
          value |-> [k |-> "dt",
                     v |-> <<x.v[1], IF Len(x.v) > 1 THEN x.v[2] ELSE 0, 0>>]]

\* the table at a path: the intermediate table exists once it was made
TableExists(e, tbl) ==
    tbl \in e.tables \/ (tbl = _tablepath(TARGET, None) /\ e.target # NoTarget)

\* _schema(table, libref): [raised, meta, e].  MoveFirst raises on the empty
\* rowset of a table that does not exist; meta lists, per column, its name
\* and its conversion.
_schema(e, table, libref, fail) ==
    LET tablepath == _tablepath(table, libref)
    IN  IF fail.call = "OpenSchema" THEN [raised |-> TRUE, meta |-> <<>>, e |-> e]
        ELSE IF ~TableExists(e, tablepath)
        THEN [raised |-> TRUE, meta |-> <<>>, e |-> [e EXCEPT !.cursors = @ + 1]]
        ELSE [raised |-> FALSE,
              meta |-> [j \in 1..Len(e.content[tablepath].cols) |->
                          [COLUMN_NAME |-> e.content[tablepath].cols[j].name,
                           CONVERT |-> CONVERT(e.content[tablepath].cols[j])]],
              e |-> e]

\* exist returning schema.BOF
existBOF(e, table, libref, fail, up) ==
    LET o0 == [e |-> e, exc |-> "", ret |-> FALSE, issued |-> TRUE]
    IN  IF ~up \/ fail.call = "OpenSchema" THEN [o0 EXCEPT !.exc = "com_error"]
        ELSE IF fail.call = "Close"
        THEN [o0 EXCEPT !.exc = "com_error", !.e.cursors = @ + 1]
        ELSE [o0 EXCEPT !.ret = ~TableExists(e, _tablepath(table, libref))]

\* exist(table, libref): [e, exc, ret, issued]
existRun(e, table, libref, fail, up) ==
    LET o0 == [e |-> e, exc |-> "", ret |-> FALSE, issued |-> TRUE]
    IN  IF ~up \/ fail.call = "OpenSchema" THEN [o0 EXCEPT !.exc = "com_error"]
        ELSE IF fail.call = "Close"
        THEN [o0 EXCEPT !.exc = "com_error", !.e.cursors = @ + 1]
        ELSE [o0 EXCEPT !.ret = TableExists(e, _tablepath(table, libref))]

\* the rows loop of read_sasdata from row i on: the converted rows, or the
\* exception a conversion raises
RECURSIVE readRows(_, _, _, _)
readRows(tbl, meta, i, rows) ==
    IF i > Len(tbl.rows) THEN [raised |-> FALSE, rows |-> rows]
    ELSE LET cs == [j \in 1..Len(tbl.cols) |->
                      convert(meta[j].CONVERT, Value(tbl.cols[j], tbl.rows[i][j]))]
         IN  IF \E j \in 1..Len(cs) : cs[j].raised THEN [raised |-> TRUE, rows |-> <<>>]
             ELSE readRows(tbl, meta, i + 1,
                           Append(rows, [j \in 1..Len(cs) |-> cs[j].value]))

\* read_sasdata(table, libref, dsopts) as operation n; up: whether the
\* workspace and the connection are open
read_sasdataRun(e, n, table, libref, dopt, fail, up) ==
    LET o0 == [e |-> e, exc |-> "", handed |-> FALSE, errAtHandoff |-> FALSE,
               ret |-> NoTarget, header |-> <<>>, rows |-> <<>>, issued |-> TRUE]
    IN  IF ~up.ws \/ fail.call = "Submit" THEN [o0 EXCEPT !.exc = "com_error"]
        ELSE
        LET export == <<[t |-> "data", tgt |-> TARGET, src |-> _tablepath(table, libref),
                         dopt |-> dopt]>>
            e1 == LSSubmit(e, export, n, "read_sasdata")
            o1 == [o0 EXCEPT !.e = e1, !.handed = TRUE, !.errAtHandoff = e.parserErr]
            sc == _schema(e1, TARGET, None, fail)
            tbl == e1.content[_tablepath(TARGET, None)]
        IN  IF ~up.conn THEN [o1 EXCEPT !.exc = "com_error"]
            ELSE IF sc.raised THEN [o1 EXCEPT !.e = sc.e, !.exc = "com_error"]
            ELSE IF fail.call = "Open" THEN [o1 EXCEPT !.exc = "com_error"]
            ELSE IF tbl.rows = <<>>
            THEN [o1 EXCEPT !.e.cursors = @ + 1, !.exc = "com_error"]
            ELSE
            LET rd == readRows(tbl, sc.meta, 1, <<>>)
            IN  IF rd.raised THEN [o1 EXCEPT !.e.cursors = @ + 1, !.exc = "TypeError"]
                ELSE [o1 EXCEPT !.ret = e1.target,
                                !.header = [j \in 1..Len(tbl.cols) |-> tbl.cols[j].name],
                                !.rows = rd.rows]

\* pd.read_csv(io.StringIO(text), parse_dates=datecols): the frame of a
\* text with a line of names; a text without one, or without one of the
\* columns to parse, is an error
pd_read_csv(text, datecols) ==
    LET tbl == csvTable(text)
        names == [j \in 1..Len(tbl.cols) |-> tbl.cols[j].name]
    IN  IF tbl = NoTable \/ \E c \in datecols : \A j \in 1..Len(names) : names[j] # c
        THEN [raised |-> TRUE, header |-> <<>>, nrows |-> 0, dates |-> {}]
        ELSE [raised |-> FALSE, header |-> names, nrows |-> Len(tbl.rows),
              dates |-> datecols]

\* the locale of the client process: the encoding open(path, 'w') takes
\* when none is named, and os.linesep, which a file opened as text writes
\* for every line feed
LF == 10
DefaultLocale == [encoding |-> "utf-8", linesep |-> <<LF>>]
Locales == {DefaultLocale, [encoding |-> "ascii", linesep |-> <<13, LF>>]}

\* whether f.write(text) can encode the text: ASCII has no character from
\* 128 on
encodable(text, locale) ==
    locale.encoding = "utf-8" \/ \A i \in 1..Len(text) : text[i] < 128

\* f.write(outstring) of a file opened with open(path, 'w'): the bytes of
\* the characters, the replacement character taking three bytes in UTF-8,
\* a line feed written as os.linesep
RECURSIVE encode(_, _)
encode(text, locale) ==
    IF text = <<>> THEN <<>>
    ELSE (IF Head(text) = ReplacementChar THEN <<239, 191, 189>>
          ELSE IF Head(text) = LF THEN locale.linesep
          ELSE <<Head(text)>>)
         \o encode(Tail(text), locale)

\* the keywords tempkeep and tempfile of sasdata2dataframeCSV; NoPath stands
\* for a tempfile that is None or not passed
NoPath == <<>>
NoCsvKwargs == [tempkeep |-> None, tempfile |-> NoPath]

\* sasdata2dataframeCSV(table, libref, dsopts, **kwargs) as operation n:
\* lfs is the client's file system, which the copy of the CSV text asked for
\* with tempkeep is written to in the locale of the process; a text the
\* locale cannot encode leaves the file opened and empty
sasdata2dataframeCSVRun(e, lfs, n, table, libref, dopt, kwargs, locale, fail, up) ==
    LET o0 == [e |-> e, lfs |-> lfs, exc |-> "", handed |-> FALSE,
               errAtHandoff |-> FALSE,
               ret |-> <<>>, issued |-> TRUE, header |-> <<>>, nrows |-> 0,
               dates |-> {}]
        keep == kwargs.tempkeep = "True" /\ kwargs.tempfile # NoPath
        sc == _schema(e, table, libref, fail)
        datecols == {sc.meta[j].COLUMN_NAME : j \in {k \in 1..Len(sc.meta) :
                                                     sc.meta[k].CONVERT # "identity"}}
    IN  IF ~up.conn THEN [o0 EXCEPT !.exc = "com_error"]
        ELSE IF sc.raised THEN [o0 EXCEPT !.e = sc.e, !.exc = "com_error"]
        ELSE IF ~up.ws \/ fail.call = "Submit" THEN [o0 EXCEPT !.exc = "com_error"]
        ELSE
        LET export == <<[t |-> "data", tgt |-> TARGET, src |-> _tablepath(table, libref),
                         dopt |-> ""],
                        [t |-> "export", dopt |-> dopt]>>
            e1 == LSSubmit(e, export, n, "sasdata2dataframeCSV")
            o1 == [o0 EXCEPT !.e = e1, !.handed = TRUE, !.errAtHandoff = e.parserErr]
            gf == _getfile(e1, sas_csv, TRUE, fail)
        IN  IF gf.raised THEN [o1 EXCEPT !.e = gf.e, !.exc = "com_error"]
            ELSE IF keep /\ kwargs.tempfile \in lfs.dirs
            THEN [o1 EXCEPT !.e = gf.e, !.exc = "OSError"]
            ELSE IF keep /\ ~encodable(gf.result, locale)
            THEN [o1 EXCEPT !.e = gf.e, !.exc = "UnicodeEncodeError",
                            !.lfs.files[kwargs.tempfile] = File(<<>>)]
            ELSE LET df == pd_read_csv(gf.result, datecols)
                     o2 == IF keep
                           THEN [o1 EXCEPT !.lfs.files[kwargs.tempfile] =
                                               File(encode(gf.result, locale))]
                           ELSE o1
                 IN  IF df.raised THEN [o2 EXCEPT !.e = gf.e, !.exc = "ValueError"]
                     ELSE [o2 EXCEPT !.e = gf.e, !.ret = gf.result, !.header = df.header,
                                     !.nrows = df.nrows, !.dates = df.dates]

\* the kinds of pandas dtypes
PD_NUM_TYPE == {"i", "u", "f", "c"}
PD_STR_TYPE == {"S", "U", "V"}
PD_DT_TYPE == {"M"}
DATETIME_NAME == Format("E8601DT", 26, 6)

\* the characters NULL, ' and the suffix DT of SQL text
NULL == <<78, 85, 76, 76>>
QUOTE == 39
DT == <<68, 84>>

\* x.replace("'", "''")
RECURSIVE doubled(_)
doubled(x) ==
    IF x = <<>> THEN <<>>
    ELSE IF Head(x) = QUOTE THEN <<QUOTE, QUOTE>> \o doubled(Tail(x))
    ELSE <<Head(x)>> \o doubled(Tail(x))

\* str(x) of a value of the frame
pystr(x) ==
    IF x.k = "none" THEN <<78, 111, 110, 101>>
    ELSE IF x.k = "nat" THEN <<78, 97, 84>>
    ELSE IF x.k = "num" THEN str(x.v[1])
    ELSE IF x.k = "bool" THEN (IF x.v[1] = 1 THEN <<84, 114, 117, 101>>
                               ELSE <<70, 97, 108, 115, 101>>)
    ELSE x.v

\* '{:%Y-%m-%dT%H:%M:%S.%f}'.format(x): the instant to the second, a point,
\* six digits of microseconds; nanoseconds are not written.  Instants count
\* from SAS_EPOCH, so the calendar fields are the number of seconds.
strftime(x) == str(x.v[1]) \o <<46>> \o zfill(str(x.v[2]), 6)

\* formats[name](x) raises AttributeError: the character rules call
\* x.replace, which only a str has
formatRaises(kind, x) ==
    ~isnull(x) /\ kind \notin PD_NUM_TYPE \cup PD_DT_TYPE /\ x.k # "str"

\* formats[name](x), name being a column of pandas kind `kind`
format(kind, x) ==
    IF isnull(x) THEN NULL
    ELSE IF kind \in PD_NUM_TYPE THEN str(x.v[1])
    ELSE IF kind \in PD_DT_TYPE THEN <<QUOTE>> \o strftime(x) \o <<QUOTE>> \o DT
    ELSE <<QUOTE>> \o doubled(x.v) \o <<QUOTE>>

\* the column definition of sql_create for column j of the frame; the
\* length of a character column with no row (max() of nothing is nan) is 0
definition(df, j) ==
    LET kind == df.columns[j].kind
        name == df.columns[j].name
        lens == {Len(IF kind \in PD_STR_TYPE THEN df.rows[i][j].v ELSE pystr(df.rows[i][j])) :
                    i \in 1..Len(df.rows)}
        length == IF lens = {} THEN 0 ELSE Max(lens)
    IN  IF kind \in PD_NUM_TYPE THEN Column(name, "num", 8, NoFormat)
        ELSE IF kind \in PD_STR_TYPE THEN Column(name, "char", length, NoFormat)
        ELSE IF kind \in PD_DT_TYPE THEN Column(name, "num", 8, DATETIME_NAME)
        ELSE Column(name, "char", length, NoFormat)

\* the cell the engine stores for a literal of an insert statement
RECURSIVE undoubled(_)
undoubled(x) ==
    IF x = <<>> THEN <<>>
    ELSE IF Len(x) >= 2 /\ x[1] = QUOTE /\ x[2] = QUOTE
    THEN <<QUOTE>> \o undoubled(SubSeq(x, 3, Len(x)))
    ELSE <<Head(x)>> \o undoubled(Tail(x))

literal(col, text) ==
    IF text = NULL THEN <<>>
    ELSE IF IsDigits(text) THEN <<int(text)>>
    ELSE IF Len(text) >= 4 /\ SubSeq(text, Len(text) - 1, Len(text)) = DT
    THEN LET ps == split(SubSeq(text, 2, Len(text) - 3), 46, <<>>)
         IN  <<int(ps[1]), int(ps[2])>>
    ELSE LET x == undoubled(SubSeq(text, 2, Len(text) - 1))
         IN  ljust(SubSeq(x, 1, IF Len(x) < col.len THEN Len(x) ELSE col.len), col.len, 32)

\* adodb.Execute of the two statements: create fails on an existing table
\* and on a character column without a length, insert on an empty value list
ExecuteCreate(e, tablepath, columns) ==
    IF tablepath \in e.tables \/ \E j \in 1..Len(columns) :
                                     columns[j].type = "char" /\ columns[j].len = 0
    THEN [raised |-> TRUE, e |-> e]
    ELSE [raised |-> FALSE,
          e |-> [e EXCEPT !.tables = @ \cup {tablepath},
                          !.content[tablepath] = [cols |-> columns, rows |-> <<>>]]]

ExecuteInsert(e, tablepath, sql_values) ==
    IF sql_values = <<>> \/ tablepath \notin e.tables THEN [raised |-> TRUE, e |-> e]
    ELSE LET cols == e.content[tablepath].cols
         IN  [raised |-> FALSE,
              e |-> [e EXCEPT !.content[tablepath].rows =
                        @ \o [i \in 1..Len(sql_values) |->
                                [j \in 1..Len(cols) |-> literal(cols[j], sql_values[i][j])]]]]

\* the two statements of dataframe2sasdata
sql_create(tablepath, columns) ==
    [stmt |-> "create", table |-> tablepath, columns |-> columns]
sql_insert(tablepath, sql_values) ==
    [stmt |-> "insert", table |-> tablepath, values |-> sql_values]

\* dataframe2sasdata(df, table, libref): [e, exc, issued, stmts], stmts
\* being the statements handed to adodb.Execute, in order
dataframe2sasdataRun(e, df, table, libref, fail, up) ==
    LET tablepath == _tablepath(table, libref)
        columns == [j \in 1..Len(df.columns) |-> definition(df, j)]
        sql_values == [i \in 1..Len(df.rows) |->
                         [j \in 1..Len(df.columns) |->
                            format(df.columns[j].kind, df.rows[i][j])]]
        o0 == [e |-> e, exc |-> "com_error", issued |-> TRUE,
               stmts |-> <<sql_create(tablepath, columns)>>]
        cr == ExecuteCreate(e, tablepath, columns)
    IN  IF \E i \in 1..Len(df.rows) : \E j \in 1..Len(df.columns) :
              formatRaises(df.columns[j].kind, df.rows[i][j])
        THEN [e |-> e, exc |-> "AttributeError", issued |-> FALSE, stmts |-> <<>>]
        ELSE IF ~up \/ FailAt(fail, "Execute") = 1 \/ cr.raised THEN o0
        ELSE LET ins == ExecuteInsert(cr.e, tablepath, sql_values)
                 o1 == [o0 EXCEPT !.e = cr.e,
                                  !.stmts = Append(@, sql_insert(tablepath, sql_values))]
             IN  IF FailAt(fail, "Execute") = 2 \/ ins.raised THEN o1
                 ELSE [o1 EXCEPT !.e = ins.e, !.exc = ""]

\* _startsas testing the connection instead of the workspace attribute
startsasByConnection(ws, conn, kp, cr, fail) ==
    IF conn = "open"
    THEN [ws |-> ws, adodb |-> conn, keeper |-> kp, created |-> cr,
          ret |-> ws.id, exc |-> ""]
    ELSE
    LET o0 == [ws |-> ws, adodb |-> "closed", keeper |-> {}, created |-> cr,
               ret |-> 0, exc |-> "com_error"]
        w  == [state |-> "open", id |-> cr.ws + 1]
    IN  IF fail = "CreateObjectByServer" THEN o0
        ELSE
        LET o1 == [o0 EXCEPT !.ws = w, !.created.ws = @ + 1]
        IN  IF fail = "AddObject" THEN o1
            ELSE IF fail = "Open" THEN [o1 EXCEPT !.keeper = {w.id}]
            ELSE [o1 EXCEPT !.keeper = {w.id}, !.adodb = "open", !.created.conn = @ + 1,
                            !.ret = w.id, !.exc = ""]

\* _startsas taking the workspace the factory made first instead of a new one
startsasSameWorkspace(ws, conn, kp, cr, fail) ==
    IF ws.state # "none"
    THEN [ws |-> ws, adodb |-> conn, keeper |-> kp, created |-> cr,
          ret |-> ws.id, exc |-> ""]
    ELSE
    LET o0 == [ws |-> ws, adodb |-> "closed", keeper |-> {}, created |-> cr,
               ret |-> 0, exc |-> "com_error"]
        w  == [state |-> "open", id |-> 1]
    IN  IF fail = "CreateObjectByServer" THEN o0
        ELSE
        LET o1 == [o0 EXCEPT !.ws = w, !.created.ws = @ + 1]
        IN  IF fail = "AddObject" THEN o1
            ELSE IF fail = "Open" THEN [o1 EXCEPT !.keeper = {w.id}]
            ELSE [o1 EXCEPT !.keeper = {w.id}, !.adodb = "open", !.created.conn = @ + 1,
                            !.ret = w.id, !.exc = ""]

\* _startsas(): [ws, adodb, keeper, created, ret, exc]
startsasRun(ws, conn, kp, cr, fail) ==
    IF ws.state # "none"
    THEN [ws |-> ws, adodb |-> conn, keeper |-> kp, created |-> cr,
          ret |-> ws.id, exc |-> ""]
    ELSE
    LET o0 == [ws |-> ws, adodb |-> "closed", keeper |-> {}, created |-> cr,
               ret |-> 0, exc |-> "com_error"]
        w  == [state |-> "open", id |-> cr.ws + 1]
    IN  IF fail = "CreateObjectByServer" THEN o0
        ELSE
        LET o1 == [o0 EXCEPT !.ws = w, !.created.ws = @ + 1]
        IN  IF fail = "AddObject" THEN o1
            ELSE IF fail = "Open" THEN [o1 EXCEPT !.keeper = {w.id}]
            ELSE [o1 EXCEPT !.keeper = {w.id}, !.adodb = "open", !.created.conn = @ + 1,
                            !.ret = w.id, !.exc = ""]

StartFails == {"none", "CreateObjectByServer", "AddObject", "Open"}

\* _endsas closing the workspace before the connection and the registry
endsasWorkspaceFirst(ws, conn, kp, fail) ==
    LET o0 == [ws |-> ws, adodb |-> conn, keeper |-> kp, exc |-> "com_error",
               calls |-> <<"workspace.Close">>]
    IN  IF fail = "workspace.Close" THEN o0
        ELSE
        LET o1 == [o0 EXCEPT !.ws.state = "closed", !.calls = Append(@, "adodb.Close")]
        IN  IF fail = "adodb.Close" \/ conn # "open" THEN o1
            ELSE
            LET o2 == [o1 EXCEPT !.adodb = "closed",
                                 !.calls = Append(@, "keeper.RemoveObject")]
            IN  IF fail = "keeper.RemoveObject" THEN o2
                ELSE [o2 EXCEPT !.keeper = @ \ {ws.id}, !.exc = ""]

\* _endsas(): [ws, adodb, keeper, exc, calls], calls being the COM calls it
\* issued, in order.  `fail` is the call that raises; closing a connection
\* that is not open raises.
endsasRun(ws, conn, kp, fail) ==
    LET o0 == [ws |-> ws, adodb |-> conn, keeper |-> kp, exc |-> "com_error",
               calls |-> <<"adodb.Close">>]
    IN  IF fail = "adodb.Close" \/ conn # "open" THEN o0
        ELSE
        LET o1 == [o0 EXCEPT !.adodb = "closed",
                             !.calls = Append(@, "keeper.RemoveObject")]
        IN  IF fail = "keeper.RemoveObject" THEN o1
            ELSE
            LET o2 == [o1 EXCEPT !.keeper = @ \ {ws.id},
                                 !.calls = Append(@, "workspace.Close")]
            IN  IF fail = "workspace.Close" THEN o2
                ELSE [o2 EXCEPT !.ws.state = "closed", !.exc = ""]

EndFails == {"none", "adodb.Close", "keeper.RemoveObject", "workspace.Close"}

-----------------------------------------------------------------------------
(* SASConfigCOM: the configuration object __init__ builds from the         *)
(* configuration file and the keywords of the constructor.  kwargs is the  *)
(* ordered keyword list, each entry [key, value].                          *)

\* the class attribute SASConfigCOM.NO_OVERRIDE
NO_OVERRIDE == {"kernel", "sb"}

\* attribute names of the object; Unset: the object has no such attribute of
\* its own
Attrs == {"host", "encoding", "_lock", "_kernel", "kernel", "sb", "NO_OVERRIDE",
          "_try_override"}
Unset == "unset"

\* kwargs.get(key) / dict.get(key, dflt)
get(kwargs, key, dflt) ==
    IF \E i \in 1..Len(kwargs) : kwargs[i].key = key
    THEN kwargs[CHOOSE i \in 1..Len(kwargs) : kwargs[i].key = key].value
    ELSE dflt

\* the attributes set from the configuration file, before any override
cfgAttrs(cfgfile, kwargs) ==
    [a \in Attrs |->
        CASE a = "host" -> cfgfile.iomhost
          [] a = "encoding" -> IF cfgfile.encoding = "absent" THEN "utf-8"
                               ELSE cfgfile.encoding
          [] a = "_lock" -> IF cfgfile.lock_down = "absent" THEN "True"
                            ELSE cfgfile.lock_down
          [] a = "_kernel" -> get(kwargs, "kernel", None)
          [] OTHER -> Unset]

\* the lists a keyword NO_OVERRIDE is given, as written, and their members
EmptyList == "[]"
HostList == "['host']"
members(list) == IF list = HostList THEN {"host"} ELSE {}

\* self.NO_OVERRIDE as the filter of line 68 reads it at each keyword: the
\* attribute of the instance once setattr has made one, the class attribute
\* until then
selfNO_OVERRIDE(self) ==
    IF self.attrs["NO_OVERRIDE"] = Unset THEN NO_OVERRIDE
    ELSE members(self.attrs["NO_OVERRIDE"])

\* _try_override(attr, value)
_try_override(self, attr, value) ==
    IF self.attrs["_lock"] = "False"
    THEN [self EXCEPT !.attrs[attr] = value]
    ELSE [self EXCEPT !.warned = Append(@, attr)]

\* the loop of lines 68-69: the filter is lazy, so each keyword is tested
\* against self.NO_OVERRIDE as the keywords before it left it, and
\* self._try_override is looked up at each call: once setattr has put a
\* value that cannot be called in its place the call raises TypeError
RECURSIVE overrides(_, _)
overrides(self, kwargs) ==
    IF kwargs = <<>> \/ self.exc # "" THEN self
    ELSE overrides(IF Head(kwargs).key \in selfNO_OVERRIDE(self) THEN self
                   ELSE IF self.attrs["_try_override"] # Unset
                   THEN [self EXCEPT !.exc = "TypeError"]
                   ELSE _try_override(self, Head(kwargs).key, Head(kwargs).value),
                   Tail(kwargs))

\* SASConfigCOM(**kwargs): [attrs, warned, exc], warned being the attributes
\* a warning was printed for and exc the exception __init__ ended with
SASConfigCOM(cfgfile, kwargs) ==
    overrides([attrs |-> cfgAttrs(cfgfile, kwargs), warned |-> <<>>, exc |-> ""], kwargs)

\* the object self.sascfg is bound to
configOf(cfg) == [attrs |-> cfg.attrs, warned |-> cfg.warned]

\* the configuration files and keyword lists constructions are made with
ConfigFiles ==
    {[iomhost |-> "cfghost", encoding |-> "absent", lock_down |-> l] :
        l \in {"absent", "True", "False"}}
KwPairs ==
    {[key |-> k, value |-> "kw"] : k \in {"kernel", "host", "_try_override"}}
    \cup {[key |-> "_lock", value |-> v] : v \in {"True", "False"}}
    \cup {[key |-> "NO_OVERRIDE", value |-> v] : v \in {EmptyList, HostList}}
sbOnly == <<[key |-> "sb", value |-> "sb"]>>
Kwargs ==
    {sbOnly \o s : s \in {q \in SeqsUpTo(KwPairs, MaxKw) :
                             \A i, j \in 1..Len(q) : q[i].key = q[j].key => i = j}}

-----------------------------------------------------------------------------
(* The session as a state machine. *)

Codes == {Code("ok"), Code("bad")}
Results == {"HTML", "text"}
Answers == {<<"v">>, <<"", "v">>, <<None>>, <<"", None>>}
Prompts ==
    {<<[key |-> "k1", answers |-> <<"", "v">>]>>,
     <<[key |-> "k1", answers |-> <<None>>]>>,
     <<[key |-> "k1", answers |-> <<"v">>], [key |-> "k2", answers |-> <<"", None>>]>>}
Tables == {"t1", "nt"}
Dsopts == {"", "bad"}

SubmitFails ==
    {NoFail, [call |-> "Submit", n |-> 1], [call |-> "FlushLog", n |-> 1],
     [call |-> "FlushLog", n |-> 2], [call |-> "FlushList", n |-> 1],
     [call |-> "OpenBinaryStream", n |-> 1], [call |-> "Read", n |-> 1],
     [call |-> "Close", n |-> 1], [call |-> "DeassignFileref", n |-> 1]}
ReadFails ==
    {NoFail, [call |-> "Submit", n |-> 1], [call |-> "OpenSchema", n |-> 1],
     [call |-> "Open", n |-> 1]}
CsvReadFails ==
    {NoFail, [call |-> "Submit", n |-> 1], [call |-> "OpenSchema", n |-> 1],
     [call |-> "Read", n |-> 1]}
\* the keywords a CSV read is given: none, a copy asked for at a file path
\* and at a directory, and a path given with tempkeep False
CsvKwargs ==
    {NoCsvKwargs, [tempkeep |-> "True", tempfile |-> <<"l2.bin">>],
     [tempkeep |-> "True", tempfile |-> LocalDir],
     [tempkeep |-> "False", tempfile |-> <<"l2.bin">>]}
CsvJobFails == {NoFail, [call |-> "FlushLog", n |-> 1], [call |-> "FlushList", n |-> 1]}

NoPump == [done |-> FALSE]
NoChan == [kind |-> "none", script |-> <<>>]

\* what the calls of an operation meet: the workspace open (LanguageService,
\* FileService), the connection open (OpenSchema, Execute, recordsets)
Up == [ws |-> workspace.state = "open", conn |-> adodb = "open"]

\* the session is open: workspace created, connection open
Ready(up) == up.ws /\ up.conn

\* what the next operation needs to know of this one: whether it was a
\* submit of incomplete code, and how that ended
Summary(l) ==
    IF l.op = "submit" /\ l.kind = "bad"
    THEN IF l.exc = "" THEN "bad submit returned" ELSE "bad submit raised"
    ELSE "other"

Kind(code) == code[1].kind

NoOp == [op |-> "none", kind |-> "", exc |-> ""]

\* the configuration of a session constructed with no keyword but sb
DefaultConfig ==
    configOf(SASConfigCOM([iomhost |-> "cfghost", encoding |-> "absent",
                           lock_down |-> "absent"], sbOnly))

\* the client's file system before any transfer
InitLocal ==
    [files |-> [p \in LocalPaths |-> IF p = <<"l.bin">> THEN File(<<1, 200, 3>>) ELSE Absent],
     dirs |-> {LocalDir}]

\* the client instances of the process
Instances == {1, 2}

\* a call that reads nothing of what the instances have in common
NoReads == [local |-> <<>>, host |-> <<>>, tables |-> <<>>]

\* a client instance before its __init__
NoInstance ==
    [phase |-> "new", workspace |-> [state |-> "none", id |-> 0], adodb |-> "none",
     keeper |-> {}, _log |-> <<>>, serial |-> 0,
     sascfg |-> [attrs |-> [a \in Attrs |-> Unset], warned |-> <<>>],
     op |-> "none", ret |-> None, exc |-> "", reads |-> NoReads]

\* the instances before their __init__: inst their attributes, own what each
\* workspace of the host holds for itself, alone each instance on a host, a
\* client and a factory of its own, ops the calls made so far
NoInstances ==
    [inst |-> [i \in Instances |-> NoInstance],
     own |-> [w \in Instances |-> InitEngine],
     alone |-> [i \in Instances |->
                  [x |-> NoInstance, engine |-> InitEngine, localfs |-> InitLocal,
                   created |-> [ws |-> 0, conn |-> 0]]],
     ops |-> 0]

\* the object as __init__ finds it: no attribute set but _log
InitLife ==
    /\ phase = "new"
    /\ workspace = [state |-> "none", id |-> 0]
    /\ adodb = "none"
    /\ keeper = {}
    /\ created = [ws |-> 0, conn |-> 0]
    /\ _log = <<>>
    /\ engine = InitEngine
    /\ serial = 0
    /\ last = NoOp
    /\ prev = "other"
    /\ drained = <<>>
    /\ chan = NoChan
    /\ pumped = NoPump
    /\ sascfg = [attrs |-> [a \in Attrs |-> Unset], warned |-> <<>>]
    /\ localfs = InitLocal
    /\ instances = NoInstances

\* the session after construction: __init__ has returned
Init ==
    /\ phase = "live"
    /\ workspace = [state |-> "open", id |-> 1]
    /\ adodb = "open"
    /\ keeper = {1}
    /\ created = [ws |-> 1, conn |-> 1]
    /\ _log = <<>>
    /\ engine = InitEngine
    /\ serial = 0
    /\ last = NoOp
    /\ prev = "other"
    /\ drained = <<>>
    /\ chan = NoChan
    /\ pumped = NoPump
    /\ sascfg = DefaultConfig
    /\ localfs = InitLocal
    /\ instances = NoInstances

\* __init__: self.sascfg = SASConfigCOM(**kwargs), self._log = '' and
\* self.pid = self._startsas().  When SASConfigCOM raises, no attribute of
\* the session is bound and _startsas is not reached; the warnings printed
\* before it raised stay printed.
Construct(cfgfile, kwargs, fail) ==
    /\ phase = "new"
    /\ LET cfg == SASConfigCOM(cfgfile, kwargs)
           r == IF cfg.exc # ""
                THEN [ws |-> workspace, adodb |-> adodb, keeper |-> keeper,
                      created |-> created, ret |-> 0, exc |-> cfg.exc]
                ELSE startsasRun(workspace, adodb, keeper, created, fail)
       IN  /\ sascfg' = IF cfg.exc # "" THEN [sascfg EXCEPT !.warned = cfg.warned]
                        ELSE configOf(cfg)
           /\ workspace' = r.ws /\ adodb' = r.adodb /\ keeper' = r.keeper
           /\ created' = r.created
           /\ phase' = IF r.exc = "" THEN "live" ELSE "failed"
           /\ last' = [op |-> "__init__", kind |-> "", exc |-> r.exc, ret |-> r.ret,
                       before |-> created, held |-> workspace,
                       conn |-> adodb, kept |-> keeper,
                       cfgfile |-> cfgfile, kwargs |-> kwargs]
    /\ prev' = Summary(last)
    /\ UNCHANGED <<instances, _log, engine, serial, drained, chan, pumped, localfs>>

StartSAS(fail) ==
    /\ phase = "live"
    /\ LET r == startsasRun(workspace, adodb, keeper, created, fail)
       IN  /\ workspace' = r.ws /\ adodb' = r.adodb /\ keeper' = r.keeper
           /\ created' = r.created
           /\ last' = [op |-> "_startsas", kind |-> "", exc |-> r.exc, ret |-> r.ret,
                       before |-> created, held |-> workspace,
                       conn |-> adodb, kept |-> keeper]
    /\ prev' = Summary(last)
    /\ UNCHANGED <<instances, phase, _log, engine, serial, drained, chan, pumped, sascfg, localfs>>

EndSAS(fail) ==
    /\ phase = "live"
    /\ LET r == endsasRun(workspace, adodb, keeper, fail)
       IN  /\ workspace' = r.ws /\ adodb' = r.adodb /\ keeper' = r.keeper
           /\ last' = [op |-> "_endsas", kind |-> "", exc |-> r.exc,
                       calls |-> r.calls, conn |-> adodb, held |-> workspace,
                       kept |-> keeper]
    /\ prev' = Summary(last)
    /\ UNCHANGED <<instances, phase, created, _log, engine, serial, drained, chan, pumped, sascfg, localfs>>

\* __del__: if self.adodb.State == STATE_OPEN: self._endsas().  An object
\* whose __init__ raised before _startsas has no attribute adodb, and the
\* test raises AttributeError
Del(fail) ==
    /\ phase \in {"live", "failed"}
    /\ LET r == IF adodb = "none"
                THEN [ws |-> workspace, adodb |-> adodb, keeper |-> keeper,
                      exc |-> "AttributeError", calls |-> <<>>]
                ELSE IF adodb = "open" THEN endsasRun(workspace, adodb, keeper, fail)
                ELSE [ws |-> workspace, adodb |-> adodb, keeper |-> keeper, exc |-> "",
                      calls |-> <<>>]
       IN  /\ workspace' = r.ws /\ adodb' = r.adodb /\ keeper' = r.keeper
           /\ last' = [op |-> "__del__", kind |-> "", exc |-> r.exc,
                       calls |-> r.calls, conn |-> adodb, held |-> workspace,
                       kept |-> keeper]
    /\ phase' = "disposed"
    /\ prev' = Summary(last)
    /\ UNCHANGED <<instances, created, _log, engine, serial, drained, chan, pumped, sascfg, localfs>>

\* the record submit-based operations leave in `last`
SubmitObs(op, n, o, code, results, prompt) ==
    [op |-> op, kind |-> Kind(code), exc |-> o.exc, n |-> n, handed |-> o.handed,
     errAtHandoff |-> o.errAtHandoff, resets |-> o.resets, unit |-> o.unit,
     LOG |-> o.LOG, LST |-> o.LST, asked |-> o.asked, macro |-> o.macro, code |-> code,
     results |-> results, prompt |-> prompt, log0 |-> _log,
     issued |-> o.issued, up |-> Up, calls |-> o.calls]

Submit(code, results, prompt, fail) ==
    /\ phase = "live" /\ serial < MaxOps
    /\ LET n == serial + 1
       IN  \E o \in {submitRun(engine, _log, n, code, results, prompt, fail, Up.ws)} :
           /\ engine' = o.e
           /\ _log' = o.log
           /\ drained' = drained \o o.took
           /\ last' = SubmitObs("submit", n, o, code, results, prompt)
    /\ serial' = serial + 1
    /\ prev' = Summary(last)
    /\ UNCHANGED <<instances, phase, workspace, adodb, keeper, created, chan, pumped, sascfg, localfs>>

\* saslog()
Saslog ==
    /\ phase = "live" /\ serial < MaxOps
    /\ last' = [op |-> "saslog", kind |-> "", exc |-> "", ret |-> _log]
    /\ serial' = serial + 1
    /\ prev' = Summary(last)
    /\ UNCHANGED <<instances, phase, workspace, adodb, keeper, created, _log, engine,
                   drained, chan, pumped, sascfg, localfs>>

\* a direct call of _prompt(key)
Prompt(answers) ==
    /\ phase = "live" /\ serial < MaxOps
    /\ LET r == _prompt("k1", answers)
       IN  last' = [op |-> "_prompt", kind |-> "", exc |-> r.exc, ret |-> r.ret,
                    asked |-> r.asked, answers |-> answers]
    /\ serial' = serial + 1
    /\ prev' = Summary(last)
    /\ UNCHANGED <<instances, phase, workspace, adodb, keeper, created, _log, engine,
                   drained, chan, pumped, sascfg, localfs>>

\* the record the read paths leave in `last`
ReadObs(op, n, o, dopt) ==
    [op |-> op, kind |-> IF dopt = "bad" THEN "bad" ELSE "ok", exc |-> o.exc, n |-> n,
     handed |-> o.handed, errAtHandoff |-> o.errAtHandoff, resets |-> 0, ret |-> o.ret,
     issued |-> o.issued, up |-> Up]

\* what a read keeps of the operation before it: the frame a
\* dataframe2sasdata wrote and how it ended
Prior(l) ==
    IF l.op = "dataframe2sasdata"
    THEN [op |-> l.op, exc |-> l.exc, df |-> l.df, table |-> l.table, fail |-> l.fail,
          up |-> l.up, existed |-> l.table \in l.e0.tables]
    ELSE [op |-> l.op]

ReadSasdata(table, libref, dopt, fail) ==
    /\ phase = "live" /\ serial < MaxOps
    /\ LET n == serial + 1
       IN  \E o \in {read_sasdataRun(engine, n, table, libref, dopt, fail, Up)} :
           /\ engine' = o.e
           /\ last' = [op |-> "read_sasdata", kind |-> IF dopt = "bad" THEN "bad" ELSE "ok",
                       exc |-> o.exc, n |-> n, handed |-> o.handed,
                       errAtHandoff |-> o.errAtHandoff, resets |-> 0, ret |-> o.ret,
                       issued |-> o.issued, up |-> Up, header |-> o.header,
                       rows |-> o.rows, table |-> _tablepath(table, libref),
                       dopt |-> dopt, fail |-> fail, e0 |-> engine, prior |-> Prior(last)]
    /\ serial' = serial + 1
    /\ prev' = Summary(last)
    /\ UNCHANGED <<instances, phase, workspace, adodb, keeper, created, _log, drained,
                   chan, pumped, sascfg, localfs>>

\* sasdata2dataframeCSV(table, dsopts=dopt, **kwargs)
Sasdata2dataframeCSV(table, dopt, kwargs, locale, fail) ==
    /\ phase = "live" /\ serial < MaxOps
    /\ LET n == serial + 1
       IN  \E o \in {sasdata2dataframeCSVRun(engine, localfs, n, table, None, dopt, kwargs,
                                             locale, fail, Up)} :
           /\ engine' = o.e
           /\ localfs' = o.lfs
           /\ last' = [op |-> "sasdata2dataframeCSV",
                       kind |-> IF dopt = "bad" THEN "bad" ELSE "ok", exc |-> o.exc,
                       n |-> n, handed |-> o.handed, errAtHandoff |-> o.errAtHandoff,
                       resets |-> 0, ret |-> o.ret, issued |-> o.issued, up |-> Up,
                       kwargs |-> kwargs, locale |-> locale, l0 |-> localfs]
    /\ serial' = serial + 1
    /\ prev' = Summary(last)
    /\ UNCHANGED <<instances, phase, workspace, adodb, keeper, created, _log, drained,
                   chan, pumped, sascfg>>

\* exist(table, libref)
Exist(table, libref, fail) ==
    /\ phase = "live" /\ serial < MaxOps
    /\ LET o == existRun(engine, table, libref, fail, Up.conn)
       IN  /\ engine' = o.e
           /\ last' = [op |-> "exist", kind |-> "", exc |-> o.exc, n |-> serial + 1,
                       ret |-> o.ret, issued |-> o.issued, up |-> Up,
                       table |-> _tablepath(table, libref), fail |-> fail, e0 |-> engine]
    /\ serial' = serial + 1
    /\ prev' = Summary(last)
    /\ UNCHANGED <<instances, phase, workspace, adodb, keeper, created, _log, drained,
                   chan, pumped, sascfg, localfs>>

\* dataframe2sasdata(df, table, libref)
Dataframe2sasdata(df, table, libref, fail) ==
    /\ phase = "live" /\ serial < MaxOps
    /\ LET o == dataframe2sasdataRun(engine, df, table, libref, fail, Up.conn)
       IN  /\ engine' = o.e
           /\ last' = [op |-> "dataframe2sasdata", kind |-> "", exc |-> o.exc,
                       n |-> serial + 1, issued |-> o.issued, up |-> Up, df |-> df,
                       table |-> _tablepath(table, libref), fail |-> fail, e0 |-> engine,
                       stmts |-> o.stmts]
    /\ serial' = serial + 1
    /\ prev' = Summary(last)
    /\ UNCHANGED <<instances, phase, workspace, adodb, keeper, created, _log, drained,
                   chan, pumped, sascfg, localfs>>

\* read_csv(file, table, nosub) and write_csv(file, table, nosub): the
\* procedure text, returned when nosub is true and submitted as text otherwise
proc_code(proc, kind, filepath, tablepath) ==
    <<[t |-> "code", kind |-> kind, proc |-> proc, file |-> filepath, table |-> tablepath]>>

\* the nosub in force: read_csv declares nosub=False, write_csv nosub=True
Omitted == "omitted"
nosubDefault(op) == IF op = "write_csv" THEN "True" ELSE "False"
nosubOf(op, nosub) == IF nosub = Omitted THEN nosubDefault(op) ELSE nosub

\* what a read_csv keeps of the operation before it: the write_csv call
CsvPrior(l) ==
    IF l.op = "write_csv"
    THEN [op |-> l.op, exc |-> l.exc, kind |-> l.kind, file |-> l.file, table |-> l.table,
          nosub |-> l.nosub, fail |-> l.fail, up |-> l.up, e0 |-> l.e0]
    ELSE [op |-> l.op]

CsvJob(op, kind, filepath, table, libref, nosub, fail) ==
    /\ phase = "live" /\ serial < MaxOps
    /\ LET n == serial + 1
           code == proc_code(IF op = "read_csv" THEN "import" ELSE "export", kind,
                             filepath, _tablepath(table, libref))
           returned == nosubOf(op, nosub) = "True"
       IN  \E o \in {IF returned THEN Outcome(engine, _log)
                ELSE submitRun(engine, _log, n, code, "text", <<>>, fail, Up.ws)} :
           /\ engine' = o.e
           /\ _log' = o.log
           /\ drained' = drained \o o.took
           /\ last' = [op |-> op, kind |-> kind, exc |-> o.exc, n |-> n,
                       handed |-> o.handed, errAtHandoff |-> o.errAtHandoff,
                       resets |-> o.resets, unit |-> o.unit, LOG |-> o.LOG,
                       LST |-> IF returned \/ op = "write_csv" THEN <<>> ELSE o.LST,
                       asked |-> o.asked, macro |-> o.macro, code |-> code,
                       results |-> "text", prompt |-> <<>>, log0 |-> _log,
                       issued |-> o.issued, up |-> Up, file |-> filepath,
                       table |-> _tablepath(table, libref), nosub |-> nosub,
                       fail |-> fail, e0 |-> engine, prior |-> CsvPrior(last)]
    /\ serial' = serial + 1
    /\ prev' = Summary(last)
    /\ UNCHANGED <<instances, phase, workspace, adodb, keeper, created, chan, pumped, sascfg, localfs>>

Next ==
    \/ \E c \in Codes, r \in Results, f \in SubmitFails : Submit(c, r, <<>>, f)
    \/ \E c \in Codes, r \in Results, p \in Prompts : Submit(c, r, p, NoFail)
    \/ Saslog
    \/ \E a \in Answers : Prompt(a)
    \/ \E t \in Tables, d \in Dsopts, f \in ReadFails : ReadSasdata(t, None, d, f)
    \/ \E t \in Tables, d \in Dsopts, kw \in CsvKwargs, loc \in Locales, f \in CsvReadFails :
          /\ kw = NoCsvKwargs \/ f = NoFail
          /\ (kw.tempkeep = "True" /\ kw.tempfile \notin localfs.dirs) \/ loc = DefaultLocale
          /\ Sasdata2dataframeCSV(t, d, kw, loc, f)
    \/ \E op \in {"read_csv", "write_csv"}, k \in {"ok", "bad"}, ns \in {"True", "False"},
          f \in CsvJobFails :
            CsvJob(op, k, <<"r.csv">>, IF op = "read_csv" THEN "t2" ELSE "t1", None, ns, f)

Spec == Init /\ [][Next]_vars

\* what a download keeps of the operation before it: the upload call
TransferPrior(l) ==
    IF l.op = "upload"
    THEN [op |-> l.op, exc |-> l.exc, Success |-> l.Success, local |-> l.local,
          remote |-> l.remote, target |-> l.target, fail |-> l.fail, e0 |-> l.e0, l0 |-> l.l0]
    ELSE [op |-> l.op]

\* upload(local, remote, overwrite) and download(local, remote, overwrite)
Transfer(op, local, remote, overwrite, fail) ==
    /\ phase = "live" /\ serial < MaxOps
    /\ LET o == IF op = "upload"
                THEN uploadRun(engine, localfs, local, remote, overwrite, fail, Up.ws)
                ELSE downloadRun(engine, localfs, local, remote, overwrite, fail, Up.ws)
       IN  /\ engine' = o.e
           /\ localfs' = o.lfs
           /\ last' = [op |-> op, kind |-> "", exc |-> o.exc, n |-> serial + 1,
                       Success |-> o.Success, LOG |-> o.LOG, target |-> o.target,
                       calls |-> o.calls, issued |-> o.calls > 0, up |-> Up,
                       local |-> local, remote |-> remote, overwrite |-> overwrite,
                       fail |-> fail, e0 |-> engine, l0 |-> localfs,
                       prior |-> TransferPrior(last)]
    /\ serial' = serial + 1
    /\ prev' = Summary(last)
    /\ UNCHANGED <<instances, phase, workspace, adodb, keeper, created, _log, drained,
                   chan, pumped, sascfg>>

Upload(local, remote, overwrite, fail) == Transfer("upload", local, remote, overwrite, fail)
Download(local, remote, overwrite, fail) == Transfer("download", local, remote, overwrite, fail)

UploadFails == {NoFail, [call |-> "Write", n |-> 1]}
DownloadFails == {NoFail, [call |-> "Read", n |-> 2]}
UploadRemotes == {RemoteDir, <<"r.bin">>, <<"gone.bin">>}
DownloadRemotes == UploadRemotes \cup {os_path_join(RemoteDir, "l.bin")}
DownloadLocals == {<<"l.bin">>, <<"l2.bin">>, LocalDir}

\* the file transfers of a session, ready or closed by _endsas
NextFile ==
    \/ \E l \in {<<b>> : b \in LocalNames}, r \in UploadRemotes, ow \in {"True", "False"},
          f \in UploadFails : Upload(l, r, ow, f)
    \/ \E l \in DownloadLocals, r \in DownloadRemotes, f \in DownloadFails :
          Download(l, r, "True", f)
    \/ \E f \in EndFails : EndSAS(f)

SpecFile == Init /\ [][NextFile]_vars

\* frames of one numeric, one string and one datetime column, named n, s
\* and d: one row, two rows with a quote in a string and nanoseconds in an
\* instant, a row with a null instant, and no row; a frame of one numeric
\* column without a row, and a frame of one boolean column named b
FrameColumns ==
    <<[name |-> <<110>>, kind |-> "i"], [name |-> <<115>>, kind |-> "O"],
      [name |-> <<100>>, kind |-> "M"]>>
DataFrame(rows) == [columns |-> FrameColumns, rows |-> rows]
RowA == <<Num(7), Str(<<97>>), Timestamp(3, 500000, 0)>>
RowB == <<Num(12), Str(<<39, 98>>), Timestamp(61, 5, 7)>>
RowC == <<Num(0), Str(<<97, 98, 99>>), NaT>>
NumFrame == [columns |-> <<[name |-> <<110>>, kind |-> "i"]>>, rows |-> <<>>]
BoolFrame == [columns |-> <<[name |-> <<98>>, kind |-> "b"]>>,
              rows |-> << <<Bool(TRUE)>>, <<Bool(FALSE)>> >>]
Frames == {DataFrame(<<RowA>>), DataFrame(<<RowB, RowA>>), DataFrame(<<RowA, RowC>>),
           DataFrame(<<>>), NumFrame, BoolFrame}

ExistFails == {NoFail, [call |-> "OpenSchema", n |-> 1], [call |-> "Close", n |-> 1]}
ExecuteFails == {NoFail, [call |-> "Execute", n |-> 1], [call |-> "Execute", n |-> 2]}
NosubArgs == {Omitted, "True", "False"}

\* the table operations of a ready session
NextData ==
    \/ \E t \in TableNames, l \in Librefs, f \in ExistFails : Exist(t, l, f)
    \/ \E df \in Frames, l \in Librefs, f \in ExecuteFails : Dataframe2sasdata(df, "t2", l, f)
    \/ \E t \in {"t1", "t2"}, l \in Librefs, d \in Dsopts \cup {DROP},
          f \in {NoFail, [call |-> "Open", n |-> 1]} : ReadSasdata(t, l, d, f)
    \/ \E op \in {"read_csv", "write_csv"}, t \in {"t1", "t2"}, ns \in NosubArgs :
          CsvJob(op, "ok", <<"r.csv">>, t, None, ns, NoFail)

SpecData == Init /\ [][NextData]_vars

\* the life of the client object, from __init__ to __del__, with submits of
\* plain text in between
NextLife ==
    \/ \E cf \in ConfigFiles, kw \in Kwargs, f \in StartFails : Construct(cf, kw, f)
    \/ \E f \in StartFails : StartSAS(f)
    \/ \E f \in EndFails : EndSAS(f)
    \/ \E f \in EndFails : Del(f)
    \/ \E c \in Codes : Submit(c, "text", <<>>, NoFail)
    \/ Saslog

SpecLife == InitLife /\ [][NextLife]_vars

-----------------------------------------------------------------------------
(* The stream pump on its own: a channel of either kind is drained once.   *)

\* chunks a channel of each kind returns: characters of a text channel, byte
\* values of a binary stream (200 is no valid single-byte character)
ChunksOf(kind) ==
    IF kind = "file" THEN {<<>>, <<97>>, <<200>>, <<97, 200>>, <<200, 97>>}
    ELSE {<<>>, <<"a">>, <<"b">>, <<"a", "b">>, <<"b", "a">>}

InitPump ==
    /\ chan \in UNION {{[kind |-> k, script |-> s] : s \in SeqsUpTo(ChunksOf(k), MaxReads)} :
                        k \in {"log", "lst", "file"}}
    /\ pumped = NoPump
    /\ _log = <<"z">>
    /\ phase = "live"
    /\ workspace = [state |-> "open", id |-> 1]
    /\ adodb = "open"
    /\ keeper = {1}
    /\ created = [ws |-> 1, conn |-> 1]
    /\ engine = InitEngine
    /\ serial = 0
    /\ last = NoOp
    /\ prev = "other"
    /\ drained = <<>>
    /\ sascfg = DefaultConfig
    /\ localfs = InitLocal
    /\ instances = NoInstances

PumpLst(f) ==
    /\ chan.kind = "lst" /\ ~pumped.done
    /\ LET r == _getlst(chan.script, f)
       IN  pumped' = [done |-> TRUE, by |-> "_getlst", f |-> f, decode |-> FALSE,
                      result |-> r.result, reads |-> r.reads, raised |-> r.raised,
                      log0 |-> _log]
    /\ UNCHANGED <<sessionVars, chan, _log>>

PumpLog(f) ==
    /\ chan.kind = "log" /\ ~pumped.done
    /\ LET r == _getlog(chan.script, f, _log)
       IN  /\ pumped' = [done |-> TRUE, by |-> "_getlog", f |-> f, decode |-> FALSE,
                         result |-> r.result, reads |-> r.reads, raised |-> r.raised,
                         log0 |-> _log]
           /\ _log' = r.log
    /\ UNCHANGED <<sessionVars, chan>>

\* _getfile on the scripted stream: AssignFileref and OpenBinaryStream come
\* before the reads, stream.Close and DeassignFileref after them, so a read
\* that raises leaves the stream open and the fileref assigned
PumpFile(f, dec) ==
    /\ chan.kind = "file" /\ ~pumped.done
    /\ LET r == getfileRead(chan.script, f, dec)
       IN  /\ pumped' = [done |-> TRUE, by |-> "_getfile", f |-> f, decode |-> dec,
                         result |-> r.result, reads |-> r.reads, raised |-> r.raised,
                         log0 |-> _log]
           /\ engine' = IF r.raised
                        THEN [engine EXCEPT !.filerefs = @ \cup {"outfile"},
                                            !.streams = @ + 1]
                        ELSE engine
    /\ UNCHANGED <<phase, workspace, adodb, keeper, created, serial, last, prev, drained,
                   sascfg, localfs, instances, chan, _log>>

NextPump ==
    \/ \E f \in 0..(MaxReads + 1) : PumpLst(f)
    \/ \E f \in 0..(MaxReads + 1) : PumpLog(f)
    \/ \E f \in 0..(MaxReads + 1), dec \in BOOLEAN : PumpFile(f, dec)

SpecPump == InitPump /\ [][NextPump]_vars

-----------------------------------------------------------------------------
(* Properties of the session protocol. *)

SubmitOps == {"submit", "read_csv", "write_csv"}
HandoffOps == SubmitOps \cup {"read_sasdata", "sasdata2dataframeCSV"}
IsHtml(results) == results \in {"html", "HTML"}

\* C1: a submit of valid code that immediately follows a submit of incomplete
\* code hands over its text with the parser out of the error state.
C1_SecondSubmitFindsParserReset ==
    (last.op = "submit" /\ last.kind = "ok" /\ last.handed
        /\ prev \in {"bad submit returned", "bad submit raised"})
    => ~last.errAtHandoff

\* When the first submit returned, it did end with Reset, and the next
\* operation of any kind finds the parser out of the error state.
AfterReturnedSubmitParserReset ==
    (last.op = "submit" /\ last.handed /\ prev = "bad submit returned")
    => ~last.errAtHandoff

\* C2: every submit that handed text to the engine has called the parser
\* reset exactly once when it ends, however it ends.
C2_ResetOnEveryExitPath ==
    (last.op = "submit" /\ last.handed) => last.resets = 1

\* C3: every operation that handed text to the engine has reset the parser
\* before it ended, and the parser is never left in the error state.
C3_ParserNeverLeftInError ==
    /\ (last.op \in HandoffOps /\ last.handed) => last.resets >= 1
    /\ ~engine.parserErr

\* C5: the session log is the concatenation, in call order, of the log text
\* the engine handed to every completed log drain; no operation shortens or
\* rewrites it, and a submit whose listing retrieval failed has appended the
\* log it drained.
C5_LogCumulative ==
    /\ [](_log = drained)
    /\ [][IsPrefix(_log, _log')]_vars
    /\ []((last.op \in SubmitOps /\ last.handed /\ last.LOG # <<>>)
            => (_log = last.log0 \o last.LOG))

\* C5 witness: a second submit drained its log and then failed to retrieve
\* its listing; the log it drained follows the first submit's in the session log.
C5_Witness ==
    /\ last.op = "submit" /\ last.exc # "" /\ last.LOG # <<>>
    /\ last.log0 # <<>> /\ _log = last.log0 \o last.LOG

\* C6: the LOG a submit returns holds the log lines of its own unit only.
C6_LogIsOfThisCall ==
    (last.op = "submit" /\ last.exc = "")
    => \A i \in 1..Len(last.LOG) : last.LOG[i].op = last.n

\* C7 as stated: the sentinel is the first and the last segment of the unit.
C7_SentinelFirstAndLast ==
    (last.op = "submit" /\ last.handed)
    => /\ last.unit[1] = Tok("reset")
       /\ last.unit[Len(last.unit)] = Tok("reset")

\* C7, amended: the unit is sentinel, macro declarations, user code, sentinel,
\* and in the HTML mode the capture preamble and postamble enclose all of it,
\* sentinels included.
C7_UnitFraming ==
    (last.op = "submit" /\ last.handed)
    => LET inner == <<Tok("reset")>> \o last.macro \o last.code \o <<Tok("reset")>>
       IN  /\ IsHtml(last.results)
                => last.unit = <<Tok("ods_open")>> \o inner \o <<Tok("ods_close")>>
           /\ ~IsHtml(last.results) => last.unit = inner

\* C7 witness: a submit in the HTML mode handed over preamble, sentinel, code,
\* sentinel, postamble.
C7_Witness ==
    /\ last.op = "submit" /\ last.handed /\ IsHtml(last.results)
    /\ Len(last.unit) = 5 /\ last.unit[2] = Tok("reset")

\* what C8 and C9 expect of the prompts of a call
Cancels(answers) == \E i \in 1..Len(answers) : answers[i] = None
Cancelled(prompt) == \E i \in 1..Len(prompt) : Cancels(prompt[i].answers)
Resolved(answers) == answers[Len(answers)]
Lets(unit) == SelectSeq(unit, LAMBDA tok : tok.t = "let")

\* C8: a submit with prompts, none of them cancelled, asks for every entry
\* and hands over a unit with one macro declaration per entry, in order.
C8_PromptsBecomeMacros ==
    (last.op = "submit" /\ last.prompt # <<>> /\ ~Cancelled(last.prompt))
    => /\ last.handed
       /\ Lets(last.unit) =
            [i \in 1..Len(last.prompt) |->
                [t |-> "let", key |-> last.prompt[i].key,
                 val |-> Resolved(last.prompt[i].answers)]]

\* C9: a submit one of whose prompts is cancelled ends with
\* KeyboardInterrupt, hands nothing to the engine and leaves the log alone.
C9_CancelAbortsSubmit ==
    (last.op = "submit" /\ Cancelled(last.prompt))
    => /\ last.exc = "KeyboardInterrupt"
       /\ ~last.handed
       /\ _log = last.log0

\* C10: _startsas on a session that holds a workspace creates and opens
\* nothing, registers nothing and returns that workspace's identifier; a
\* session never has created more than one workspace and one connection.
C10_StartIdempotent ==
    /\ (last.op = "_startsas" /\ last.held.state # "none")
        => /\ created = last.before
           /\ workspace = last.held /\ adodb = last.conn /\ keeper = last.kept
           /\ last.exc = "" /\ last.ret = last.held.id
    /\ created.ws <= 1 /\ created.conn <= 1

\* C10 witness: _startsas was called on a session whose workspace _endsas had
\* closed, and returned the identifier of that workspace.
C10_Witness ==
    last.op = "_startsas" /\ last.held.state = "closed" /\ last.ret = 1

-----------------------------------------------------------------------------
(* Properties of the session's life. *)

CloseSteps == <<"adodb.Close", "keeper.RemoveObject", "workspace.Close">>

\* C11: a close issues its calls in the order connection close, removal from
\* the object keeper, workspace close, each only after the one before it has
\* returned: the calls of every _endsas are a prefix of that order, all three
\* when it returns; a closed workspace is out of the keeper and its connection
\* is closed, and a workspace out of the keeper has no open connection.
C11_CloseInOrder ==
    /\ (last.op \in {"_endsas", "__del__"})
        => /\ IsPrefix(last.calls, CloseSteps)
           /\ (last.op = "_endsas" /\ last.exc = "") => last.calls = CloseSteps
           /\ Len(last.calls) >= 2 => adodb = "closed"
           /\ Len(last.calls) = 3 => last.held.id \notin keeper
    /\ workspace.state = "closed" => (adodb = "closed" /\ workspace.id \notin keeper)
    /\ adodb = "open" => workspace.id \in keeper

\* C11 witness: _endsas on an open session made the three calls and left the
\* connection closed, the keeper empty and the workspace closed.
C11_Witness ==
    /\ last.op = "_endsas" /\ last.exc = "" /\ last.calls = CloseSteps
    /\ last.conn = "open" /\ last.held.state = "open" /\ last.held.id \in last.kept
    /\ adodb = "closed" /\ keeper = {} /\ workspace.state = "closed"

\* C12: _endsas or __del__ on a session whose connection is already closed
\* raises nothing and issues no call.
C12_CloseRepeatable ==
    (last.op \in {"_endsas", "__del__"} /\ last.conn = "closed"
        /\ last.held.state = "closed")
    => (last.exc = "" /\ last.calls = <<>>)

\* The part of C12 that holds: disposal after a close, the connection being
\* there and closed, raises nothing and issues no call.
DisposalAfterCloseIsQuiet ==
    (last.op = "__del__" /\ last.conn = "closed") => (last.exc = "" /\ last.calls = <<>>)

\* disposal of an object that never got its connection raises
DisposalWithoutConnectionRaises ==
    (last.op = "__del__" /\ last.conn = "none")
    => (last.exc = "AttributeError" /\ last.calls = <<>> /\ workspace = last.held)

DisposalWithoutConnectionRaisesHappens ==
    last.op = "__del__" /\ last.conn = "none" /\ last.exc = "AttributeError"

\* C13: an operation issues a call to the workspace or the connection only
\* while the workspace is open and the connection is open.
C13_NoCallUnlessOpen ==
    (last.op \in HandoffOps \cup {"exist", "dataframe2sasdata", "upload", "download"}
        /\ last.issued)
    => Ready(last.up)

\* the value the lock flag of a configuration file stands for
ConfigLock(cfgfile) == IF cfgfile.lock_down = "absent" THEN "True" ELSE cfgfile.lock_down

\* what the configuration file gives an attribute
FileValue(cfgfile, attr) == cfgAttrs(cfgfile, <<>>)[attr]

Warned(attr) == \E i \in 1..Len(sascfg.warned) : sascfg.warned[i] = attr

\* C14 as stated: every keyword but kernel and sb is refused with a warning
\* when the configuration's lock flag is set and takes effect without one
\* when it is clear; kernel and sb are never overrides.
C14_OverrideByConfigLock ==
    last.op = "__init__" =>
        /\ \A i \in 1..Len(last.kwargs) :
            LET kw == last.kwargs[i]
            IN  kw.key \notin NO_OVERRIDE =>
                    IF ConfigLock(last.cfgfile) = "False"
                    THEN sascfg.attrs[kw.key] = kw.value /\ ~Warned(kw.key)
                    ELSE sascfg.attrs[kw.key] = FileValue(last.cfgfile, kw.key)
                         /\ Warned(kw.key)
        /\ \A k \in NO_OVERRIDE : sascfg.attrs[k] = Unset /\ ~Warned(k)

\* the attributes the override loop itself reads
LoopAttrs == {"_lock", "NO_OVERRIDE", "_try_override"}

\* the keywords name configuration fields only, none of the attributes the
\* loop reads
FieldKeywords(kwargs) == \A i \in 1..Len(kwargs) : kwargs[i].key \notin LoopAttrs

\* the part of C14 that holds: when the keywords name configuration fields
\* only, each but kernel and sb is refused with a warning under a locked
\* configuration and takes effect without one under an unlocked one, and
\* kernel and sb are not overrides.
FieldKeywordsFollowConfigLock ==
    (last.op = "__init__" /\ FieldKeywords(last.kwargs)) =>
        /\ \A i \in 1..Len(last.kwargs) :
            LET kw == last.kwargs[i]
            IN  kw.key \notin NO_OVERRIDE =>
                    IF ConfigLock(last.cfgfile) = "False"
                    THEN sascfg.attrs[kw.key] = kw.value /\ ~Warned(kw.key)
                    ELSE sascfg.attrs[kw.key] = FileValue(last.cfgfile, kw.key)
                         /\ Warned(kw.key)
        /\ \A k \in NO_OVERRIDE : sascfg.attrs[k] = Unset /\ ~Warned(k)

FieldKeywordsFollowConfigLockHappens ==
    /\ last.op = "__init__" /\ ConfigLock(last.cfgfile) = "False"
    /\ last.kwargs = sbOnly \o <<[key |-> "host", value |-> "kw"],
                                 [key |-> "kernel", value |-> "kw"]>>
    /\ sascfg.attrs["host"] = "kw" /\ sascfg.attrs["kernel"] = Unset
    /\ sascfg.attrs["_kernel"] = "kw" /\ sascfg.warned = <<>>

\* under a locked configuration every keyword but kernel and sb is refused
\* with a warning, whatever it names
LockedConfigRefusesAll ==
    (last.op = "__init__" /\ ConfigLock(last.cfgfile) # "False") =>
        /\ last.exc \in {"", "com_error"}
        /\ sascfg.attrs = cfgAttrs(last.cfgfile, last.kwargs)
        /\ \A i \in 1..Len(last.kwargs) :
              last.kwargs[i].key \notin NO_OVERRIDE <=> Warned(last.kwargs[i].key)

\* an unlocked configuration constructed with the keywords _lock (True) and
\* host: _lock took effect without a warning, host after it was refused
\* with a warning and kept the file's value.
LockKeywordLocksHappens ==
    /\ last.op = "__init__" /\ ConfigLock(last.cfgfile) = "False"
    /\ Len(last.kwargs) = 3
    /\ last.kwargs[2] = [key |-> "_lock", value |-> "True"]
    /\ last.kwargs[3].key = "host"
    /\ sascfg.attrs["_lock"] = "True" /\ sascfg.attrs["host"] = "cfghost"
    /\ sascfg.warned = <<"host">>

\* an unlocked configuration constructed with NO_OVERRIDE=[] and then
\* kernel: kernel is set as an attribute like any override.
KernelOverriddenHappens ==
    /\ last.op = "__init__" /\ ConfigLock(last.cfgfile) = "False"
    /\ last.kwargs = sbOnly \o <<[key |-> "NO_OVERRIDE", value |-> EmptyList],
                                 [key |-> "kernel", value |-> "kw"]>>
    /\ sascfg.attrs["kernel"] = "kw" /\ sascfg.warned = <<>>

\* an unlocked configuration constructed with a keyword _try_override and
\* then host: the construction raises TypeError and no session is started.
OverrideOfTheMethodRaisesHappens ==
    /\ last.op = "__init__" /\ last.exc = "TypeError" /\ phase = "failed"
    /\ last.kwargs = sbOnly \o <<[key |-> "_try_override", value |-> "kw"],
                                 [key |-> "host", value |-> "kw"]>>
    /\ workspace.state = "none" /\ created.ws = 0

-----------------------------------------------------------------------------
(* Properties of the stream pump. *)

\* the first read of a channel that returns the empty chunk
RECURSIVE FirstEmpty(_, _)
FirstEmpty(script, i) ==
    IF i > Len(script) \/ script[i] = <<>> THEN i ELSE FirstEmpty(script, i + 1)

\* C4: a drain makes exactly k+1 reads for k non-empty chunks followed by an
\* empty one, none after the first empty chunk, and returns the k chunks
\* joined in read order (decoded when _getfile is asked to decode); _getlog
\* appends what it returns to the session log.
C4_DrainToFirstEmpty ==
    pumped.done =>
        LET k == FirstEmpty(chan.script, 1) - 1
            payload == Flatten(SubSeq(chan.script, 1, k))
        IN  /\ pumped.reads <= k + 1
            /\ pumped.raised <=> pumped.f \in 1..(k + 1)
            /\ ~pumped.raised =>
                /\ pumped.reads = k + 1
                /\ pumped.result = IF pumped.decode THEN decode(payload) ELSE payload
                /\ pumped.by = "_getlog" => _log = pumped.log0 \o payload
                /\ pumped.by # "_getlog" => _log = pumped.log0

\* C4 witness: _getlog drained [ab, ba, empty] in three reads and returned abba.
C4_Witness ==
    /\ pumped.done /\ pumped.by = "_getlog"
    /\ chan.script = << <<"a", "b">>, <<"b", "a">>, <<>> >>
    /\ pumped.result = <<"a", "b", "b", "a">> /\ pumped.reads = 3

(* Properties of the tables. *)

\* C15: when exist(table, libref) returns, it returns true exactly if a
\* table of that path exists now, false for the name no operation ever
\* created in whatever library, and it leaves the engine as it found it, the
\* schema cursor it opened closed again.
C15_ExistIffCreated ==
    (last.op = "exist" /\ last.exc = "") =>
        /\ last.ret = (last.table \in engine.tables)
        /\ last.table.name = "nt" => ~last.ret
        /\ engine = last.e0
        /\ engine.cursors = last.e0.cursors

\* C15 witness: exist finds the table a dataframe2sasdata created in the
\* second library.
C15_Witness ==
    /\ last.op = "exist" /\ last.exc = "" /\ last.ret
    /\ last.table = _tablepath("t2", "sashelp")
    /\ last.table \notin InitEngine.tables

\* the value of a cell at the precision it is written with: an instant
\* without its nanoseconds
Written(x) == IF x.k = "dt" THEN Timestamp(x.v[1], x.v[2], 0) ELSE x

\* read_sasdata(table) right after dataframe2sasdata(frame, table) made a
\* new table, on a ready session with a clean parser and no COM failure
CursorRoundTrip ==
    /\ last.op = "read_sasdata" /\ last.prior.op = "dataframe2sasdata"
    /\ last.prior.table = last.table /\ ~last.prior.existed
    /\ Ready(last.prior.up) /\ Ready(last.up) /\ ~last.e0.parserErr
    /\ last.prior.fail = NoFail /\ last.fail = NoFail /\ last.dopt = ""

\* both calls returned and the read gave the frame back
FrameReturned ==
    LET df == last.prior.df
    IN  /\ last.prior.exc = "" /\ last.exc = ""
        /\ last.header = [j \in 1..Len(df.columns) |-> df.columns[j].name]
        /\ Len(last.rows) = Len(df.rows)
        /\ \A i \in 1..Len(df.rows) : \A j \in 1..Len(df.columns) :
                last.rows[i][j] = Written(df.rows[i][j])

\* C16: a frame of a numeric, a string and a datetime column written with
\* dataframe2sasdata comes back from read_sasdata with the same header, the
\* same rows in the same order and equal cells.
C16_CursorRoundTrip == CursorRoundTrip => FrameReturned

\* the frames that have a row and no null cell do come back
NonNullFrameRoundTrip ==
    (/\ CursorRoundTrip
     /\ last.prior.df.columns = FrameColumns
     /\ last.prior.df.rows # <<>>
     /\ \A i \in 1..Len(last.prior.df.rows) : \A j \in 1..Len(FrameColumns) :
            ~isnull(last.prior.df.rows[i][j]))
    => FrameReturned

\* such a round trip happens: two rows, a quote, nanoseconds
NonNullFrameRoundTripHappens ==
    CursorRoundTrip /\ last.prior.df = DataFrame(<<RowB, RowA>>) /\ FrameReturned

\* read_csv(path, table2) right after write_csv(path, table) of an existing
\* table, on a ready session with a clean parser and no COM failure
CsvRoundTrip ==
    /\ last.op = "read_csv" /\ last.prior.op = "write_csv"
    /\ last.prior.file = last.file /\ last.prior.table \in last.prior.e0.tables
    /\ Ready(last.prior.up) /\ Ready(last.up) /\ ~last.prior.e0.parserErr
    /\ last.prior.kind = "ok" /\ last.kind = "ok"
    /\ last.prior.fail = NoFail /\ last.fail = NoFail

\* a column with a fraction in some cell
Floating(tbl, j) ==
    tbl.cols[j].type = "num" /\ \E i \in 1..Len(tbl.rows) : Len(tbl.rows[i][j]) > 1

\* the file holds the export of the table and table2 holds its rows
TableReturned ==
    LET tbl == last.prior.e0.content[last.prior.table]
        tbl2 == engine.content[last.table]
    IN  /\ engine.files[last.file] = File(csvText(tbl))
        /\ last.table \in engine.tables
        /\ Len(tbl2.rows) = Len(tbl.rows)
        /\ Len(tbl2.cols) = Len(tbl.cols)
        /\ \A j \in 1..Len(tbl.cols) : ~Floating(tbl, j) =>
                \A i \in 1..Len(tbl.rows) : tbl2.rows[i][j] = tbl.rows[i][j]

\* C17: write_csv(path, table) followed by read_csv(path, table2), neither
\* given a nosub, leaves the export of the table at path and makes table2
\* with as many rows and, in non-floating columns, the same values.
C17_CsvRoundTrip ==
    (CsvRoundTrip /\ last.prior.nosub = Omitted /\ last.nosub = Omitted) => TableReturned

\* with nosub=False passed to write_csv the round trip does hold
SubmittedCsvRoundTrip ==
    (CsvRoundTrip /\ last.prior.nosub = "False" /\ last.nosub \in {Omitted, "False"})
    => TableReturned

SubmittedCsvRoundTripHappens ==
    /\ CsvRoundTrip /\ last.prior.nosub = "False" /\ last.nosub = Omitted
    /\ last.prior.table = _tablepath("t1", None) /\ last.table = _tablepath("t2", None)
    /\ TableReturned

------------------------------------------------------------------------------
(* Properties of the file transfers. *)

\* a transfer the file policy refuses: a download of a remote path that does
\* not exist or is a directory, an upload onto a remote path that is a file
\* with overwrite False
PolicyViolation(l) ==
    \/ /\ l.op = "download"
       /\ l.remote \in l.e0.dirs \/ ~l.e0.files[l.remote].exists
    \/ /\ l.op = "upload" /\ l.overwrite = "False"
       /\ l.remote \notin l.e0.dirs /\ l.e0.files[l.remote].exists

\* C18: a download of a remote path that does not exist or is a directory,
\* and an upload onto an existing remote file with overwrite False, return
\* Success False with a message, raise nothing, make no FileService call
\* (no fileref, no stream) and leave the engine's files and the local files
\* as they were.
C18_PolicyViolationIsData ==
    (last.op \in {"upload", "download"} /\ PolicyViolation(last)) =>
        /\ last.exc = "" /\ last.Success = "False" /\ last.LOG # ""
        /\ last.calls = 0
        /\ engine = last.e0
        /\ localfs = last.l0

\* C18 witness: a download of the remote directory was refused.
C18_Witness ==
    /\ last.op = "download" /\ last.remote = RemoteDir
    /\ last.Success = "False" /\ last.exc = ""

\* where a transfer writes
UploadTarget(l) ==
    IF l.remote \in l.e0.dirs THEN l.remote \o <<l.local[Len(l.local)]>> ELSE l.remote
DownloadTarget(l) ==
    IF l.local \in l.l0.dirs THEN l.local \o <<l.remote[Len(l.remote)]>> ELSE l.local

\* C19: on a session whose workspace is open, an upload the policy allows,
\* of a local file that exists and with no COM failure, writes the local bytes to the remote directory joined
\* with the basename of the local file when the remote path is a directory
\* and to the remote path itself otherwise, and to no other remote file; a
\* download likewise writes to the local directory joined with the last
\* component of the remote path, or to the local path itself.
C19_TargetResolution ==
    /\ (/\ last.op = "upload" /\ ~PolicyViolation(last) /\ last.fail = NoFail
        /\ last.up.ws /\ last.l0.files[last.local].exists)
       => /\ last.Success = "True" /\ last.target = UploadTarget(last)
          /\ engine.files = [last.e0.files EXCEPT
                                ![UploadTarget(last)] = File(last.l0.files[last.local].data)]
          /\ localfs = last.l0
    /\ (/\ last.op = "download" /\ ~PolicyViolation(last) /\ last.fail = NoFail
        /\ last.up.ws)
       => /\ last.Success = "True" /\ last.target = DownloadTarget(last)
          /\ localfs.files = [last.l0.files EXCEPT
                                 ![DownloadTarget(last)] = File(last.e0.files[last.remote].data)]
          /\ engine.files = last.e0.files

\* C19 witness: a file uploaded into the remote directory is downloaded into
\* the local directory.
C19_Witness ==
    /\ last.op = "download" /\ last.Success = "True" /\ last.local = LocalDir
    /\ last.target = <<"ldir", "l.bin">>
    /\ last.prior.op = "upload" /\ last.prior.Success = "True"
    /\ last.prior.remote = RemoteDir /\ last.prior.target = <<"rdir", "l.bin">>
    /\ last.remote = last.prior.target

\* the bytes a successful upload read
Uploaded(p) == File(p.l0.files[p.local].data)

\* C20 as stated: after a successful upload(local, remote) the file at
\* remote holds the local bytes, and download(local2, remote) succeeds and
\* leaves them at local2.
C20_RoundTripOfPaths ==
    (/\ last.op = "download" /\ last.fail = NoFail
     /\ last.prior.op = "upload" /\ last.prior.Success = "True"
     /\ last.remote = last.prior.remote)
    => /\ last.e0.files[last.remote] = Uploaded(last.prior)
       /\ last.Success = "True"
       /\ localfs.files[last.local] = Uploaded(last.prior)

\* C20: after a successful upload the file at the upload's target holds
\* exactly the local bytes, and a download of that target with no COM
\* failure succeeds and leaves exactly those bytes at the download's target.
C20_RoundTripOfTargets ==
    /\ (last.op = "upload" /\ last.Success = "True")
       => engine.files[last.target] = File(last.l0.files[last.local].data)
    /\ (/\ last.op = "download" /\ last.fail = NoFail
        /\ last.prior.op = "upload" /\ last.prior.Success = "True"
        /\ last.remote = last.prior.target)
       => /\ last.e0.files[last.remote] = Uploaded(last.prior)
          /\ last.Success = "True"
          /\ localfs.files[last.target] = Uploaded(last.prior)
          /\ last.target = DownloadTarget(last)

\* C20 witness: three bytes went up to a new remote file and came down to a
\* new local file.
C20_Witness ==
    /\ last.op = "download" /\ last.Success = "True"
    /\ last.prior.op = "upload" /\ last.prior.remote = <<"gone.bin">>
    /\ last.remote = <<"gone.bin">> /\ last.local = <<"l2.bin">>
    /\ localfs.files[<<"l2.bin">>] = File(<<1, 200, 3>>)

\* ---------------------------------------------------------------------
\* The two read paths of sasdata2dataframe

\* the frame sasdata2dataframe makes of the rows and header of read_sasdata:
\* a column of datetime values is a column of calendar values
CursorFrame(l) ==
    [failed |-> l.exc # "", header |-> l.header, nrows |-> Len(l.rows),
     dates |-> {l.header[j] : j \in {k \in 1..Len(l.header) :
                                       \E i \in 1..Len(l.rows) : l.rows[i][k].k = "dt"}}]

\* the frame the CSV path makes of the same table with the same dataset
\* options in the state the cursor read started from
CsvFrame(l) ==
    LET libref == IF l.table.lib = "work" THEN None ELSE l.table.lib
        o == CHOOSE r \in {sasdata2dataframeCSVRun(l.e0, InitLocal, l.n, l.table.name, libref,
                                                   l.dopt, NoCsvKwargs, DefaultLocale, NoFail,
                                                   l.up)} : TRUE
    IN  [failed |-> o.exc # "", header |-> o.header, nrows |-> o.nrows, dates |-> o.dates]

\* C21: the cursor path and the CSV path are interchangeable: for the same
\* table and dataset options both fail or both return, and the frames they
\* return have the same column names, the same number of rows and the same
\* columns of calendar values.
C21_PathsInterchangeable ==
    (last.op = "read_sasdata" /\ last.fail = NoFail)
    => CursorFrame(last) = CsvFrame(last)

\* reads without dataset options of a table that has a row and no missing
\* calendar cell, on a ready session with a clean parser: there the paths
\* agree
PlainRead ==
    /\ last.op = "read_sasdata" /\ last.fail = NoFail /\ Ready(last.up)
    /\ ~last.e0.parserErr /\ last.dopt = ""
    /\ last.table \in last.e0.tables
    /\ LET tbl == last.e0.content[last.table]
       IN  /\ tbl.rows # <<>>
           /\ \A i \in 1..Len(tbl.rows) : \A j \in 1..Len(tbl.cols) :
              CONVERT(tbl.cols[j]) # "identity" => tbl.rows[i][j] # <<>>

PathsAgreeOnPlainReads == PlainRead => CursorFrame(last) = CsvFrame(last)

PathsAgreeOnPlainReadsHappens ==
    /\ PlainRead /\ last.exc = "" /\ CursorFrame(last).dates = {<<100>>}
    /\ CsvFrame(last) = CursorFrame(last)

\* ---------------------------------------------------------------------
\* Disposal

\* __del__ has run and raised nothing
Disposed == phase = "disposed" /\ last.op = "__del__" /\ last.exc = ""

\* C23: no workspace handle is leaked: once __del__ has run, the workspace
\* the object created is closed and no longer in the registry, the
\* connection having been closed before it; this also when opening the
\* connection failed after the workspace was created and when the
\* connection is no longer open at disposal.
C23_NoWorkspaceLeaked ==
    (Disposed /\ last.held.state = "open")
    => /\ workspace.state = "closed"
       /\ workspace.id \notin keeper
       /\ adodb # "open"
       /\ last.calls = <<"adodb.Close", "keeper.RemoveObject", "workspace.Close">>

\* with the connection open at disposal the workspace is released
DisposalOfOpenSessionReleases ==
    (Disposed /\ last.held.state = "open" /\ last.conn = "open")
    => /\ workspace.state = "closed"
       /\ workspace.id \notin keeper
       /\ adodb = "closed"
       /\ last.calls = <<"adodb.Close", "keeper.RemoveObject", "workspace.Close">>

DisposalOfOpenSessionHappens ==
    /\ Disposed /\ last.held.state = "open" /\ last.conn = "open"
    /\ workspace.state = "closed" /\ keeper = {}

\* ---------------------------------------------------------------------
\* The steps of one submit

\* the steps of a submit whose unit is `unit`, in the order of the code
SubmitSteps(unit) ==
    <<"Submit", "_getlog", IF Has(unit, "ods_open") THEN "_getfile" ELSE "_getlst",
      "_reset">>

\* C24: within one submit the steps occur in this order: one Submit of the
\* framed text, the log drain, the listing retrieval, the parser reset; a
\* submit that returns made all four.  The listing is read from the capture
\* file and post-processed exactly when the code was wrapped with the
\* capture preamble and postamble, and drained from the listing channel
\* exactly when it was not.
C24_StepsInOrder ==
    (last.op = "submit")
    => LET steps == SubmitSteps(last.unit)
       IN  /\ Len(last.calls) <= Len(steps)
           /\ last.calls = SubSeq(steps, 1, Len(last.calls))
           /\ last.exc = "" => last.calls = steps
           /\ last.handed <=> Len(last.calls) > 1
           /\ last.handed => (Has(last.unit, "ods_open") <=> IsHtml(last.results))
           /\ (last.exc = "" /\ IsHtml(last.results))
                  => \A i \in 1..Len(last.LST) :
                        last.LST[i] \notin {FORM_FEED, BODY_C, FONT_XSMALL}

\* C24 witness: a submit in the HTML mode returned the post-processed capture
\* file of its unit after the four steps.
C24_Witness ==
    /\ last.op = "submit" /\ last.exc = "" /\ IsHtml(last.results)
    /\ last.calls = <<"Submit", "_getlog", "_getfile", "_reset">>
    /\ last.LST = replace(HtmlOf(last.n)) /\ last.LST # HtmlOf(last.n)

\* ---------------------------------------------------------------------
\* The rows of read_sasdata

\* read_sasdata(table) without dataset options of a table that has rows, on
\* a ready session with a clean parser and no COM failure
ReadOfRows ==
    /\ last.op = "read_sasdata" /\ last.fail = NoFail /\ Ready(last.up)
    /\ ~last.e0.parserErr /\ last.dopt = ""
    /\ last.table \in last.e0.tables
    /\ last.e0.content[last.table].rows # <<>>

\* the conversion of a raw cursor value by the format name of its column:
\* epoch plus days, epoch plus seconds, or the value itself
Converted(col, x) ==
    IF col.fmt.name \in sas_date_fmts
    THEN Timestamp(x.v[1] * SecondsPerDay, 0, 0)
    ELSE IF col.fmt.name \in sas_datetime_fmts
    THEN Timestamp(x.v[1], IF Len(x.v) > 1 THEN x.v[2] ELSE 0, 0)
    ELSE x

\* the read returned one value per column in every row, each the conversion
\* of the raw value of its cell where the cell has one
RowsConverted ==
    LET tbl == last.e0.content[last.table]
    IN  /\ last.exc = ""
        /\ last.header = [j \in 1..Len(tbl.cols) |-> tbl.cols[j].name]
        /\ Len(last.rows) = Len(tbl.rows)
        /\ \A i \in 1..Len(last.rows) :
              /\ Len(last.rows[i]) = Len(last.header)
              /\ \A j \in 1..Len(tbl.cols) :
                    tbl.rows[i][j] # <<>>
                    => last.rows[i][j] = Converted(tbl.cols[j],
                                                   Value(tbl.cols[j], tbl.rows[i][j]))

\* C25: every row read_sasdata returns has as many values as the header has
\* names, and value i is the conversion, chosen by the format name of
\* column i alone, of the raw cursor value; this includes the rows whose
\* date or datetime cell is missing.
C25_RowsAreConvertedCells == ReadOfRows => RowsConverted

\* the calendar cells of the table read all have a value
NoMissingCalendarCell ==
    LET tbl == last.e0.content[last.table]
    IN  \A i \in 1..Len(tbl.rows) : \A j \in 1..Len(tbl.cols) :
           CONVERT(tbl.cols[j]) # "identity" => tbl.rows[i][j] # <<>>

RowsConvertedWithoutMissing == (ReadOfRows /\ NoMissingCalendarCell) => RowsConverted

RowsConvertedWithoutMissingHappens ==
    /\ ReadOfRows /\ NoMissingCalendarCell /\ RowsConverted
    /\ \E j \in 1..Len(last.header) : last.rows[1][j].k = "dt"

\* ---------------------------------------------------------------------
\* The statements of dataframe2sasdata

\* a dataframe2sasdata whose renderings raised nothing
FrameWritten == last.op = "dataframe2sasdata" /\ last.exc # "AttributeError"

\* the create statement failed: the table is not one this call made
CreateFailed == last.table \in last.e0.tables \/ last.table \notin engine.tables

\* the statements of the last call: a create-table statement with one
\* definition per frame column in column order, then, unless the create
\* failed, an insert statement with one value tuple per frame row in row
\* order; a create that fails propagates and is the only statement
CreateThenInsert ==
    LET df == last.df
        s  == last.stmts
    IN  /\ Len(s) \in {1, 2}
        /\ s[1].stmt = "create" /\ s[1].table = last.table
        /\ Len(s[1].columns) = Len(df.columns)
        /\ \A j \in 1..Len(df.columns) : s[1].columns[j].name = df.columns[j].name
        /\ CreateFailed <=> Len(s) = 1
        /\ CreateFailed => last.exc = "com_error"
        /\ Len(s) = 2
             => /\ s[2].stmt = "insert" /\ s[2].table = last.table
                /\ Len(s[2].values) = Len(df.rows)
                /\ \A i \in 1..Len(df.rows) :
                      /\ Len(s[2].values[i]) = Len(df.columns)
                      /\ \A j \in 1..Len(df.columns) :
                            s[2].values[i][j] = format(df.columns[j].kind, df.rows[i][j])

\* C26: for every frame, a frame with zero rows included, dataframe2sasdata
\* executes one create-table statement with one definition per frame column
\* in column order, then one insert statement with one value tuple per frame
\* row in row order; when the create statement fails the failure propagates
\* and the insert is not executed; no statement is executed twice.
C26_CreateThenInsert == last.op = "dataframe2sasdata" => CreateThenInsert

\* the part of C26 that holds: a frame whose values all render is handed
\* over as the create statement and then the insert statement
WrittenFramesCreateThenInsert == FrameWritten => CreateThenInsert

\* a frame of two rows made both statements and returned; a frame without
\* rows made both; a create that failed was the only one.
WrittenFramesCreateThenInsertHappens ==
    /\ FrameWritten /\ last.exc = "" /\ Len(last.stmts) = 2
    /\ last.df = DataFrame(<<RowB, RowA>>)

ZeroRowsBothStatements ==
    FrameWritten /\ last.df = NumFrame /\ Len(last.stmts) = 2 /\ last.stmts[2].values = <<>>

CreateFailedNoInsert ==
    FrameWritten /\ Ready(last.up) /\ CreateFailed /\ last.stmts = <<last.stmts[1]>>

\* a frame with a column of booleans and a row: no statement is handed over
NoStatementForBoolFrame ==
    /\ last.op = "dataframe2sasdata" /\ last.df = BoolFrame
    /\ last.exc = "AttributeError" /\ last.stmts = <<>> /\ engine = last.e0

\* ---------------------------------------------------------------------
\* Definitions and renderings by column kind

\* the rendering the kinds call for: NULL for a missing value, the raw text
\* of a number, the timestamp literal of an instant, and the quoted text,
\* quotes doubled, of a string and of every other value
Rendered(kind, x) ==
    IF isnull(x) THEN NULL
    ELSE IF kind \in PD_NUM_TYPE THEN pystr(x)
    ELSE IF kind \in PD_DT_TYPE THEN <<QUOTE>> \o strftime(x) \o <<QUOTE>> \o DT
    ELSE <<QUOTE>> \o doubled(pystr(x)) \o <<QUOTE>>

\* dataframe2sasdata on a ready session with no COM failure
FrameHandled == last.op = "dataframe2sasdata" /\ Ready(last.up) /\ last.fail = NoFail

\* the statements carry, per column, the definition of its kind and, per
\* value, the rendering of its kind; a declared character length is at
\* least the length of every value rendered into the column
KindsRendered ==
    LET df == last.df
        s  == last.stmts
        values == [i \in 1..Len(df.rows) |->
                     [j \in 1..Len(df.columns) |->
                        Rendered(df.columns[j].kind, df.rows[i][j])]]
    IN  /\ s # <<>>
        /\ \A j \in 1..Len(df.columns) :
              LET kind == df.columns[j].kind
                  col  == s[1].columns[j]
              IN  /\ kind \in PD_NUM_TYPE => col.type = "num" /\ col.fmt = NoFormat
                  /\ kind \in PD_DT_TYPE => col.type = "num" /\ col.fmt = DATETIME_NAME
                  /\ kind \notin PD_NUM_TYPE \cup PD_DT_TYPE
                        => /\ col.type = "char"
                           /\ \A i \in 1..Len(df.rows) :
                                 ~isnull(df.rows[i][j])
                                 => col.len >= Len(pystr(df.rows[i][j]))
        /\ Len(s) = 2 => s[2].values = values

\* C27: each column's kind (numeric, string, datetime, and the fallback for
\* every other type such as boolean or object) selects one definition and
\* one rendering rule: a missing value renders as NULL in every kind, a
\* number as its raw text, a string and every fallback value, whatever its
\* local type, as a single-quoted literal with quotes doubled, an instant as
\* a timestamp literal; a declared character length is at least the length
\* of every value rendered into it.
C27_KindSelectsRendering == FrameHandled => KindsRendered

\* the frames whose string and fallback columns hold only str values
StrValuesOnly ==
    \A i \in 1..Len(last.df.rows) : \A j \in 1..Len(last.df.columns) :
        ~formatRaises(last.df.columns[j].kind, last.df.rows[i][j])

KindsRenderedForStr == (FrameHandled /\ StrValuesOnly) => KindsRendered

KindsRenderedForStrHappens ==
    /\ FrameHandled /\ StrValuesOnly /\ KindsRendered
    /\ last.df = DataFrame(<<RowA, RowC>>) /\ Len(last.stmts) = 2

\* ---------------------------------------------------------------------
\* The intermediate table of the read paths

\* a read path returned to its caller
ReadReturned == last.op \in {"read_sasdata", "sasdata2dataframeCSV"} /\ last.exc = ""

\* the intermediate table was made by this call: what is read back from it
\* is content of the table the call names
MadeByThisCall ==
    /\ engine.target.op = last.n
    /\ last.op = "read_sasdata"
          => /\ engine.target.src = last.table /\ engine.target.dopt = last.dopt
             /\ last.table \in last.e0.tables
             /\ last.header =
                  [j \in 1..Len(Applied(last.e0.content[last.table], last.dopt).cols) |->
                      Applied(last.e0.content[last.table], last.dopt).cols[j].name]
             /\ Len(last.rows) = Len(last.e0.content[last.table].rows)

\* C28: after any sequence of reads, what read_sasdata (and the CSV path)
\* returns is of the table named in that call with that call's dataset
\* options; it is never what an earlier read left in _saspy_sd2df, in
\* particular when the named table does not exist or the materializing
\* step fails.
C28_ReadsAreOfTheNamedTable == ReadReturned => MadeByThisCall

\* reads of an existing table handed to a parser that is not in the error
\* state do read what they made
ReadsOfExistingTablesAreFresh ==
    (/\ ReadReturned /\ ~last.errAtHandoff /\ last.kind = "ok"
     /\ last.op = "read_sasdata" => last.table \in last.e0.tables)
    => MadeByThisCall

ReadsOfExistingTablesAreFreshHappens ==
    /\ ReadReturned /\ last.op = "read_sasdata" /\ last.n > 1
    /\ last.table \in last.e0.tables /\ MadeByThisCall /\ last.e0.target # NoTarget

\* ---------------------------------------------------------------------
\* Streams, filerefs and cursors

\* no stream, fileref or cursor of the workspace is open
NothingOpen == engine.streams = 0 /\ engine.filerefs = {} /\ engine.cursors = 0

\* C29: every binary stream, fileref and cursor an operation opens is
\* released by it, whether it ends normally or because a read, a write or a
\* conversion failed, so that after any sequence of operations no stream,
\* fileref or cursor remains open.
C29_NothingLeftOpen == NothingOpen

\* an operation that returns leaves open nothing it opened
ReturningOperationReleases ==
    [][(NothingOpen /\ last'.exc = "") => NothingOpen']_vars

ReturningOperationReleasesHappens ==
    /\ last.op = "submit" /\ last.exc = "" /\ IsHtml(last.results) /\ last.LST # <<>>
    /\ NothingOpen

\* ---------------------------------------------------------------------
\* Uploads with overwrite disabled

\* upload(local, remote, overwrite=False) with no COM failure
GuardedUpload == last.op = "upload" /\ last.overwrite = "False" /\ last.fail = NoFail

\* the remote files that existed before the call hold what they held
ExistingFilesKept ==
    \A p \in RemoteFiles : last.e0.files[p].exists => engine.files[p] = last.e0.files[p]

\* C30: with overwrite disabled, upload never changes the content of a
\* remote file that existed before the call, when the remote path names the
\* file itself and also when it names a directory that already holds a file
\* with the basename of the local file.
C30_NoOverwriteWhenDisabled == GuardedUpload => ExistingFilesKept

\* when the remote path names the existing file itself the file is kept
NamedFileKept ==
    (GuardedUpload /\ last.e0.files[last.remote].exists) => ExistingFilesKept

NamedFileKeptHappens ==
    /\ GuardedUpload /\ last.remote = <<"r.bin">> /\ last.local = <<"l.bin">>
    /\ last.Success = "False" /\ engine.files[<<"r.bin">>] = File(<<7, 200, 9>>)

-----------------------------------------------------------------------------
(* Two client instances of one process, on one SAS host.  Each holds its   *)
(* own attributes and, once constructed, the workspace the object factory  *)
(* of the process made for it.  A workspace has its own parser, log,       *)
(* listing, WORK library and WORK directory; the files of the host outside *)
(* WORK, the tables of its other libraries and the client's file system    *)
(* are the same for both instances.  Beside each instance runs that        *)
(* instance alone: the same calls with the same arguments, on a host, a    *)
(* client and a factory no other instance uses.                            *)

\* most calls made on the two instances together, after their __init__
MaxPeerOps == 3

\* a path in the WORK directory of a workspace
InWork(path) == Len(path) >= Len(workpath) /\ SubSeq(path, 1, Len(workpath)) = workpath

\* the parts of engine e every workspace of the host works on: the files and
\* directories outside WORK, and the tables of the libraries other than WORK
HostFiles(e) ==
    [files |-> [p \in {q \in RemoteFiles : ~InWork(q)} |-> e.files[p]], dirs |-> e.dirs]
LibraryTables(e) ==
    [tables |-> {t \in e.tables : t.lib # "work"},
     content |-> [q \in {t \in TablePaths : t.lib # "work"} |-> e.content[q]]]

\* the engine a workspace works on: own is what the workspace holds for
\* itself, host the files and library tables of the host as they are now
Seen(own, host) ==
    [own EXCEPT
       !.files = [p \in RemoteFiles |-> IF InWork(p) THEN own.files[p] ELSE host.files[p]],
       !.dirs = host.dirs,
       !.tables = {t \in own.tables : t.lib = "work"} \cup {t \in host.tables : t.lib # "work"},
       !.content = [q \in TablePaths |-> IF q.lib = "work" THEN own.content[q]
                                         ELSE host.content[q]]]

\* what a call reads of the file systems and libraries the instances have
\* in common: a transfer the files of the client and of the host, a table
\* operation on a library other than WORK the tables of those libraries
readsOf(call, e, lfs) ==
    IF call.op \in {"upload", "download"}
    THEN [NoReads EXCEPT !.local = lfs, !.host = HostFiles(e)]
    ELSE IF call.op \in {"exist", "dataframe2sasdata"} /\ call.libref # None
    THEN [NoReads EXCEPT !.tables = LibraryTables(e)]
    ELSE NoReads

\* what a call leaves: the attributes x of the instance, the engine e of its
\* workspace, the client's files lfs
Left(x, e, lfs) == [x |-> x, e |-> e, lfs |-> lfs]

submitLeft(x, lfs, o) ==
    Left([x EXCEPT !._log = o.log, !.ret = [LOG |-> o.LOG, LST |-> o.LST], !.exc = o.exc],
         o.e, lfs)
endsasLeft(x, e, lfs, r) ==
    Left([x EXCEPT !.workspace = r.ws, !.adodb = r.adodb, !.keeper = r.keeper,
                   !.ret = None, !.exc = r.exc], e, lfs)
transferLeft(x, o) ==
    Left([x EXCEPT !.ret = [Success |-> o.Success, LOG |-> o.LOG], !.exc = o.exc],
         o.e, o.lfs)
existLeft(x, lfs, o) == Left([x EXCEPT !.ret = o.ret, !.exc = o.exc], o.e, lfs)
dataframe2sasdataLeft(x, lfs, o) == Left([x EXCEPT !.ret = None, !.exc = o.exc], o.e, lfs)

\* a method called on the instance of attributes x0, whose workspace works
\* on engine e, with the client's files lfs
callRun(call, x0, e, lfs) ==
    LET x == [x0 EXCEPT !.serial = @ + 1, !.op = call.op, !.reads = readsOf(call, e, lfs)]
        up == [ws |-> x0.workspace.state = "open", conn |-> x0.adodb = "open"]
    IN  CASE call.op = "submit" ->
               CHOOSE l \in {submitLeft(x, lfs, o) :
                               o \in {submitRun(e, x0._log, x.serial, call.code, call.results,
                                                <<>>, NoFail, up.ws)}} : TRUE
          [] call.op = "_endsas" ->
               endsasLeft(x, e, lfs, endsasRun(x0.workspace, x0.adodb, x0.keeper, "none"))
          [] call.op = "upload" ->
               CHOOSE l \in {transferLeft(x, o) :
                               o \in {uploadRun(e, lfs, call.local, call.remote, "True",
                                                NoFail, up.ws)}} : TRUE
          [] call.op = "download" ->
               CHOOSE l \in {transferLeft(x, o) :
                               o \in {downloadRun(e, lfs, call.local, call.remote, "True",
                                                  NoFail, up.ws)}} : TRUE
          [] call.op = "exist" ->
               existLeft(x, lfs, existRun(e, call.table, call.libref, NoFail, up.conn))
          [] call.op = "dataframe2sasdata" ->
               CHOOSE l \in {dataframe2sasdataLeft(x, lfs, o) :
                               o \in {dataframe2sasdataRun(e, call.df, call.table, call.libref,
                                                           NoFail, up.conn)}} : TRUE

\* __init__ on the instance of attributes x, the factory having made cr
\* objects: [x, created]
initRun(x, cr, cfgfile, kwargs, fail) ==
    LET cfg == SASConfigCOM(cfgfile, kwargs)
        r == IF cfg.exc # ""
             THEN [ws |-> x.workspace, adodb |-> x.adodb, keeper |-> x.keeper,
                   created |-> cr, ret |-> 0, exc |-> cfg.exc]
             ELSE startsasRun(x.workspace, x.adodb, x.keeper, cr, fail)
    IN  [x |-> [x EXCEPT !.sascfg = IF cfg.exc # "" THEN [@ EXCEPT !.warned = cfg.warned]
                                    ELSE configOf(cfg),
                         !.workspace = r.ws, !.adodb = r.adodb, !.keeper = r.keeper,
                         !.phase = IF r.exc = "" THEN "live" ELSE "failed",
                         !.op = "__init__", !.exc = r.exc],
         created |-> r.created]

\* a workspace two instances hold is one object: what a call of instance i
\* did to it shows through the reference of the other
SameObject(insts, i) ==
    [j \in Instances |->
       IF j # i /\ insts[i].workspace.id # 0 /\ insts[j].workspace.id = insts[i].workspace.id
       THEN [insts[j] EXCEPT !.workspace = insts[i].workspace]
       ELSE insts[j]]

\* __init__ of instance i
InstanceConstruct(i, cfgfile, kwargs, fail) ==
    /\ instances.inst[i].phase = "new"
    /\ \E a \in {initRun(instances.inst[i], created, cfgfile, kwargs, fail)},
          s \in {initRun(instances.alone[i].x, instances.alone[i].created, cfgfile, kwargs,
                         fail)} :
          /\ instances' = [instances EXCEPT
                             !.inst = SameObject([@ EXCEPT ![i] = a.x], i),
                             !.alone[i] = [@ EXCEPT !.x = s.x, !.created = s.created]]
          /\ created' = a.created
    /\ UNCHANGED <<phase, workspace, adodb, keeper, _log, engine, serial, last, prev,
                   drained, chan, pumped, sascfg, localfs>>

\* a method called on instance i
InstanceCall(i, call) ==
    /\ instances.inst[i].phase = "live" /\ instances.ops < MaxPeerOps
    /\ \E a \in {callRun(call, instances.inst[i],
                         Seen(instances.own[instances.inst[i].workspace.id], engine),
                         localfs)},
          s \in {callRun(call, instances.alone[i].x, instances.alone[i].engine,
                         instances.alone[i].localfs)} :
          /\ instances' = [instances EXCEPT
                             !.inst = SameObject([@ EXCEPT ![i] = a.x], i),
                             !.alone[i] = [@ EXCEPT !.x = s.x, !.engine = s.e,
                                                    !.localfs = s.lfs],
                             !.own[instances.inst[i].workspace.id] = a.e,
                             !.ops = @ + 1]
          /\ engine' = Seen(engine, a.e)
          /\ localfs' = a.lfs
    /\ UNCHANGED <<phase, workspace, adodb, keeper, created, _log, serial, last, prev,
                   drained, chan, pumped, sascfg>>

InstanceSubmit(i, code, results) ==
    InstanceCall(i, [op |-> "submit", code |-> code, results |-> results])
InstanceEndSAS(i) == InstanceCall(i, [op |-> "_endsas"])
InstanceUpload(i, local, remote) ==
    InstanceCall(i, [op |-> "upload", local |-> local, remote |-> remote])
InstanceDownload(i, local, remote) ==
    InstanceCall(i, [op |-> "download", local |-> local, remote |-> remote])
InstanceExist(i, table, libref) ==
    InstanceCall(i, [op |-> "exist", table |-> table, libref |-> libref])
InstanceDataframe2sasdata(i, df, table, libref) ==
    InstanceCall(i, [op |-> "dataframe2sasdata", df |-> df, table |-> table,
                     libref |-> libref])

\* the configuration file and the keywords the instances are made with
PeerConfig == [iomhost |-> "cfghost", encoding |-> "absent", lock_down |-> "False"]
PeerKwargs ==
    [i \in Instances |->
       IF i = 1 THEN sbOnly \o <<[key |-> "host", value |-> "kw"]>>
       ELSE sbOnly \o <<[key |-> "NO_OVERRIDE", value |-> EmptyList]>>]

\* calls on the two instances, in any interleaving
NextTwo ==
    \/ \E i \in Instances, f \in {"none", "Open"} :
          InstanceConstruct(i, PeerConfig, PeerKwargs[i], f)
    \/ \E i \in Instances, r \in Results : InstanceSubmit(i, Code("ok"), r)
    \/ \E i \in Instances : InstanceEndSAS(i)
    \/ \E i \in Instances : InstanceUpload(i, <<"l.bin">>, <<"gone.bin">>)
    \/ \E i \in Instances, r \in {<<"r.bin">>, <<"gone.bin">>} :
          InstanceDownload(i, <<"l2.bin">>, r)
    \/ \E i \in Instances, l \in Librefs : InstanceExist(i, "t2", l)
    \/ \E i \in Instances, l \in Librefs : InstanceDataframe2sasdata(i, DataFrame(<<RowA>>), "t2", l)

SpecTwo == InitLife /\ [][NextTwo]_vars

\* the workspace, connection, configuration and cumulative log of an
\* instance, and what its last call returned or raised
StateOf(x) ==
    [phase |-> x.phase, workspace |-> x.workspace.state, adodb |-> x.adodb,
     sascfg |-> x.sascfg, _log |-> x._log]
Returned(x) == [op |-> x.op, ret |-> x.ret, exc |-> x.exc]

SubmitsApartHappens ==
    /\ \A i \in Instances : instances.inst[i].op = "submit" /\ instances.inst[i].exc = ""
    /\ instances.inst[1].ret.LST # <<>> /\ instances.inst[2].ret.LST # <<>>
    /\ instances.inst[1].ret.LST # instances.inst[2].ret.LST
    /\ instances.inst[1]._log # <<>> /\ instances.inst[2]._log # <<>>

\* the download of one instance finds the file the upload of the other left
\* on the host, which alone it does not find
DownloadOfPeerUploadHappens ==
    /\ instances.inst[1].op = "upload" /\ instances.inst[1].ret.Success = "True"
    /\ instances.inst[2].op = "download" /\ instances.inst[2].ret.Success = "True"
    /\ instances.alone[2].x.ret.Success = "False"
    /\ localfs.files[<<"l2.bin">>] = File(<<1, 200, 3>>)
    /\ ~instances.alone[2].localfs.files[<<"l2.bin">>].exists

\* a table made in a library other than WORK by one instance exists for
\* the other
LibraryTableOfPeerHappens ==
    /\ instances.inst[1].op = "dataframe2sasdata" /\ instances.inst[1].exc = ""
    /\ instances.inst[2].op = "exist" /\ instances.inst[2].ret = TRUE
    /\ instances.alone[2].x.ret = FALSE

====
